---- MODULE Spec2Model ----
(***************************************************************************)
(* Replay worker of the scheduler service (core/scheduler/service).        *)
(*                                                                         *)
(* One replay request is followed through its life.  The persisted record  *)
(* (state, runs, message) is what the replay repository holds; sched is    *)
(* the run table of the external workflow scheduler.  One Tick is one      *)
(* whole invocation of ReplayWorker.Process; the result of every call it   *)
(* makes to the job repository, the scheduler and the replay repository    *)
(* is an input of the tick (a call may fail).                              *)
(*                                                                         *)
(* Times are schedule points 1, 2, ... of the job's cron; the logical time *)
(* of a run is the schedule point before its scheduledAt.  All instants    *)
(* are UTC instants, so run.ScheduledAt.UTC() is the instant itself.       *)
(***************************************************************************)
EXTENDS Integers, Sequences, FiniteSets, TLC

\* largest number of runs in the replay's run vector
MaxRuns == 3

\* ------------------------------------------------------------------------
\* values of scheduler.ReplayState and scheduler.State
ReplayStateCreated         == "created"
ReplayStatePartialReplayed == "partial replayed"
ReplayStateReplayed        == "replayed"
ReplayStateSuccess         == "success"
ReplayStateFailed          == "failed"

StatePending    == "pending"
StateInProgress == "in_progress"
StateSuccess    == "success"
StateFailed     == "failed"

prefixReplayed == "replayed"

NonTerminalStates == {ReplayStateCreated, ReplayStatePartialReplayed, ReplayStateReplayed}
TerminalStates    == {ReplayStateSuccess, ReplayStateFailed}

\* the scheduler has no run for a schedule point
NoRun == "none"
\* what the scheduler's run table holds for a schedule point: no run, or a
\* run that has not finished, or a finished run
SchedStates == {NoRun, StateInProgress, StateSuccess, StateFailed}

\* ------------------------------------------------------------------------
\* errors (err.Error() of the error a call returns)
NoErr          == ""
ErrGetJobCron  == "unable to get job cron"
ErrGetJobRuns  == "unable to get job runs"
ErrGetJobRun   == "unable to get job run"
ErrClearBatch  == "unable to clear batch"
ErrClear       == "unable to clear run"
ErrClearNotFound == "not found: run to clear does not exist"
ErrUpdateReplay == "unable to update replay"
ErrUpdateReplayStatus == "unable to update replay status"
\* the Go runtime's panic when a method is called through a nil *JobRunStatus
ErrNilDeref    == "panic: nil pointer dereference"

\* the error of one failing CreateRun
ErrCreateRun(logicalTime) == "unable to create run at " \o ToString(logicalTime)

\* ------------------------------------------------------------------------
\* the call that fails in a tick (the first failing call ends the handler,
\* except in createMissingRuns, where every CreateRun of createFail fails),
\* and whether the UpdateReplayStatus of updateReplayAsFailed fails as well
FailingCalls == {"GetJobCron", "fetchRuns", "fetchRun", "ClearBatch",
                 "Clear", "ClearNotFound", "UpdateReplay"}

\* the calls (other than CreateRun) that a tick on a request in state st can
\* reach, so that their failing can matter
ReachableCalls(st, par) ==
    CASE st = ReplayStateCreated /\ par -> {"GetJobCron", "ClearBatch", "fetchRuns", "UpdateReplay"}
      [] st = ReplayStateCreated /\ ~par ->
            {"GetJobCron", "fetchRun", "Clear", "ClearNotFound", "UpdateReplay"}
      [] st = ReplayStatePartialReplayed ->
            {"GetJobCron", "fetchRuns", "fetchRun", "Clear", "ClearNotFound", "UpdateReplay"}
      [] st = ReplayStateReplayed -> {"GetJobCron", "fetchRuns", "UpdateReplay"}
      [] OTHER -> {"GetJobCron"}

\* the sets of runs whose CreateRun fails: any set in the parallel start of a
\* replay, where many runs are created; otherwise the one run created, or none
CreateFailures(st, par, times) ==
    CASE st = ReplayStateCreated /\ par -> (SUBSET times) \ {{}}
      [] st \in {ReplayStateCreated, ReplayStatePartialReplayed} /\ times # {} -> {times}
      [] OTHER -> {}

Faults(st, par, times) ==
    {[fail |-> "none", createFail |-> {}, statusFail |-> FALSE]}
    \cup {[fail |-> c, createFail |-> {}, statusFail |-> s] :
            c \in FailingCalls \cap ReachableCalls(st, par), s \in BOOLEAN}
    \cup {[fail |-> "CreateRun", createFail |-> S, statusFail |-> s] :
            S \in CreateFailures(st, par, times), s \in BOOLEAN}

NoFault == [fail |-> "none", createFail |-> {}, statusFail |-> FALSE]

\* one call made by a tick, as the tick's trace records it: the operation, its
\* time arguments (0: none), the dagRunIDPrefix of a CreateRun, and the error
\* it returned (NoErr: none)
Call(op, a, b, prefix, res) == [op |-> op, a |-> a, b |-> b, prefix |-> prefix, res |-> res]

VARIABLES
    state,      \* persisted Replay.State
    runs,       \* persisted run vector: sequence of JobRunStatus
    message,    \* persisted Replay.Message
    parallel,   \* Replay.Config.Parallel
    sched,      \* the scheduler's run table: schedule point -> SchedStates
    last,       \* what the last step was: "init", "tick", "sched", "dispatch"
    from,       \* state of the replay request the last tick was given
    io,         \* the calls the last tick made, in order
    err,        \* the error the last tick ended with (NoErr: none)
    again,      \* the last tick directly followed a tick without error on a
                \* replay that was not terminal
    ticks,      \* ticks counted (in the sequential and the fair scenario only)
    inflight,   \* worker -> the replay request it was handed and has not processed
    elapsed,    \* hours since the processing of the replay request began (in
                \* the timed scenario only)
    cin,        \* the arguments and collaborators of one InputCompiler.Compile
    cout        \* what that Compile returned (done = FALSE: not called yet)

vars == <<state, runs, message, parallel, sched, last, from, io, err, again, ticks, inflight,
          elapsed, cin, cout>>

\* worker goroutines that can be in flight at once
NumWorkers == 2

\* a worker that holds no request
Idle == [state |-> "idle", runs |-> <<>>, parallel |-> FALSE, startTime |-> 0, endTime |-> 0]

\* ------------------------------------------------------------------------
\* scheduler.JobRunStatus and the helpers of scheduler.JobRunStatusList

JobRunStatus(scheduledAt, st) == [scheduledAt |-> scheduledAt, state |-> st]

\* the nil *JobRunStatus
NilRun == [scheduledAt |-> -1, state |-> "nil"]

\* JobRunStatus.GetLogicalTime: jobCron.Prev(ScheduledAt)
GetLogicalTime(run) == run.scheduledAt - 1

\* the scheduledAt of the run whose logical time is logicalTime: jobCron.Next
ScheduledAtOf(logicalTime) == logicalTime + 1

RECURSIVE InsertSorted(_, _)
InsertSorted(sorted, run) ==
    IF sorted = <<>> THEN <<run>>
    ELSE IF run.scheduledAt < Head(sorted).scheduledAt THEN <<run>> \o sorted
    ELSE <<Head(sorted)>> \o InsertSorted(Tail(sorted), run)

RECURSIVE SortByScheduledAt(_)
SortByScheduledAt(rs) ==
    IF rs = <<>> THEN <<>>
    ELSE InsertSorted(SortByScheduledAt(SubSeq(rs, 1, Len(rs) - 1)), rs[Len(rs)])

\* JobRunStatusList.GetSortedRunsByStates: the runs in one of the states,
\* ascending by scheduledAt (runs of one instant keep their order)
GetSortedRunsByStates(rs, states) ==
    SortByScheduledAt(SelectSeq(rs, LAMBDA r : r.state \in states))

\* JobRunStatusList.ToRunStatusMap: scheduledAt -> state
ToRunStatusMap(rs) ==
    [t \in {rs[i].scheduledAt : i \in DOMAIN rs} |->
        (CHOOSE r \in {rs[i] : i \in DOMAIN rs} : r.scheduledAt = t).state]

\* a lookup in a Go map: the zero State for a missing key
Lookup(m, t) == IF t \in DOMAIN m THEN m[t] ELSE ""

\* JobRunStatusList.MergeWithUpdatedRuns: the vector with the state of every
\* run whose scheduledAt is a key of updatedRunMap replaced
MergeWithUpdatedRuns(rs, updatedRunMap) ==
    [i \in DOMAIN rs |->
        IF rs[i].scheduledAt \in DOMAIN updatedRunMap
        THEN JobRunStatus(rs[i].scheduledAt, updatedRunMap[rs[i].scheduledAt])
        ELSE rs[i]]

\* ReplayWithRun.GetFirstExecutableRun / GetLastExecutableRun: the earliest
\* and the latest pending run, nil when no run is pending
GetFirstExecutableRun(rs) ==
    LET pending == GetSortedRunsByStates(rs, {StatePending})
    IN IF Len(pending) > 0 THEN pending[1] ELSE NilRun

GetLastExecutableRun(rs) ==
    LET pending == GetSortedRunsByStates(rs, {StatePending})
    IN IF Len(pending) > 0 THEN pending[Len(pending)] ELSE NilRun

\* ------------------------------------------------------------------------
\* the scheduler client (contract of ReplayScheduler)

\* GetJobRuns: the runs the scheduler has in [startDate, endDate], ascending
RECURSIVE GetJobRuns(_, _, _)
GetJobRuns(sch, startDate, endDate) ==
    IF startDate > endDate THEN <<>>
    ELSE LET rest == GetJobRuns(sch, startDate, endDate - 1)
         IN IF endDate \in DOMAIN sch /\ sch[endDate] # NoRun
            THEN Append(rest, JobRunStatus(endDate, sch[endDate]))
            ELSE rest

\* CreateRun: a new run starts; no effect when the run exists
SchedCreateRun(sch, logicalTime) ==
    LET t == ScheduledAtOf(logicalTime)
    IN IF t \in DOMAIN sch /\ sch[t] = NoRun
       THEN [sch EXCEPT ![t] = StateInProgress] ELSE sch

\* Clear: an existing run is reset and runs again
SchedClear(sch, logicalTime) ==
    LET t == ScheduledAtOf(logicalTime)
    IN IF t \in DOMAIN sch /\ sch[t] # NoRun
       THEN [sch EXCEPT ![t] = StateInProgress] ELSE sch

\* ClearBatch: every existing run of the closed interval is reset
SchedClearBatch(sch, startLogical, endLogical) ==
    [t \in DOMAIN sch |->
        IF sch[t] # NoRun /\ startLogical <= t - 1 /\ t - 1 <= endLogical
        THEN StateInProgress ELSE sch[t]]

\* the run is gone when Clear reaches the scheduler
SchedRunGone(sch, logicalTime) ==
    LET t == ScheduledAtOf(logicalTime)
    IN IF t \in DOMAIN sch THEN [sch EXCEPT ![t] = NoRun] ELSE sch

\* ------------------------------------------------------------------------
\* ReplayWorker.  A handler works on ctx, a record with the fields io (the
\* calls made so far in the tick) and sched (the scheduler's run table), and
\* returns both with its result.  f names the calls that fail in the tick.

\* fetchRuns: GetJobRuns over the replay's [StartTime, EndTime]
fetchRuns(req, ctx, f) ==
    [err |-> IF f.fail = "fetchRuns" THEN ErrGetJobRuns ELSE NoErr,
     runs |-> IF f.fail = "fetchRuns" THEN <<>>
              ELSE GetJobRuns(ctx.sched, req.startTime, req.endTime),
     io |-> Append(ctx.io, Call("GetJobRuns", req.startTime, req.endTime, "",
                                IF f.fail = "fetchRuns" THEN ErrGetJobRuns ELSE NoErr)),
     sched |-> ctx.sched]

\* fetchRun: GetJobRuns for exactly scheduledAt; found: a run came back
fetchRun(req, ctx, f, scheduledAt) ==
    [err |-> IF f.fail = "fetchRun" THEN ErrGetJobRun ELSE NoErr,
     found |-> f.fail # "fetchRun" /\ Len(GetJobRuns(ctx.sched, scheduledAt, scheduledAt)) # 0,
     io |-> Append(ctx.io, Call("GetJobRuns", scheduledAt, scheduledAt, "",
                                IF f.fail = "fetchRun" THEN ErrGetJobRun ELSE NoErr)),
     sched |-> ctx.sched]

\* getMissingRuns: the expected runs whose scheduledAt no existing run has
getMissingRuns(expectedRuns, existingRuns) ==
    SelectSeq(expectedRuns,
              LAMBDA run : run.scheduledAt \notin DOMAIN ToRunStatusMap(existingRuns))

\* CreateRun whose error is not appended to the multi error
CreateRunErrorLost(acc, f, run) ==
    [io |-> Append(acc.io, Call("CreateRun", GetLogicalTime(run), 0, prefixReplayed,
                                IF f.fail = "CreateRun" /\ run.scheduledAt \in f.createFail
                                THEN ErrCreateRun(GetLogicalTime(run)) ELSE NoErr)),
     sched |-> acc.sched,
     err |-> NoErr,
     errs |-> acc.errs]

\* scheduler.CreateRun for run with prefixReplayed, within acc = [io, sched,
\* errs]: err is the error of this call, errs the errors appended so far
CreateRun(acc, f, run) ==
    IF f.fail = "CreateRun" /\ run.scheduledAt \in f.createFail
    THEN [io |-> Append(acc.io, Call("CreateRun", GetLogicalTime(run), 0, prefixReplayed,
                                     ErrCreateRun(GetLogicalTime(run)))),
          sched |-> acc.sched,
          err |-> ErrCreateRun(GetLogicalTime(run)),
          errs |-> acc.errs \o " " \o ErrCreateRun(GetLogicalTime(run))]
    ELSE [io |-> Append(acc.io, Call("CreateRun", GetLogicalTime(run), 0, prefixReplayed, NoErr)),
          sched |-> SchedCreateRun(acc.sched, GetLogicalTime(run)),
          err |-> NoErr,
          errs |-> acc.errs]

\* the loop of createMissingRuns: CreateRun for each run, errors accumulated
RECURSIVE CreateRuns(_, _, _)
CreateRuns(runsToBeCreated, acc, f) ==
    IF runsToBeCreated = <<>> THEN acc
    ELSE CreateRuns(Tail(runsToBeCreated), CreateRun(acc, f, Head(runsToBeCreated)), f)

\* me.ToErr() of createMissingRuns: nil when no CreateRun failed
MultiErrorToErr(me) ==
    [err |-> IF me.errs = "" THEN NoErr ELSE "create runs:" \o me.errs,
     io |-> me.io, sched |-> me.sched]

\* createMissingRuns after its fetchRuns
CreateMissingOf(req, f, existedRuns) ==
    IF existedRuns.err # NoErr
    THEN [err |-> existedRuns.err, io |-> existedRuns.io, sched |-> existedRuns.sched]
    ELSE MultiErrorToErr(
            CreateRuns(getMissingRuns(req.runs, existedRuns.runs),
                       [io |-> existedRuns.io, sched |-> existedRuns.sched, errs |-> ""], f))

\* createMissingRuns
createMissingRuns(req, ctx, f) == CreateMissingOf(req, f, fetchRuns(req, ctx, f))

\* the error of the Clear of a tick
ClearResult(f) ==
    CASE f.fail = "Clear" -> ErrClear
      [] f.fail = "ClearNotFound" -> ErrClearNotFound
      [] OTHER -> NoErr

\* scheduler.Clear for the run, as replayRunOnScheduler calls it
ClearRun(ctx, f, runToReplay) ==
    [err |-> ClearResult(f),
     io |-> Append(ctx.io, Call("Clear", GetLogicalTime(runToReplay), 0, "", ClearResult(f))),
     sched |-> CASE f.fail = "Clear" -> ctx.sched
                 [] f.fail = "ClearNotFound" -> SchedRunGone(ctx.sched, GetLogicalTime(runToReplay))
                 [] OTHER -> SchedClear(ctx.sched, GetLogicalTime(runToReplay))]

\* the one CreateRun of replayRunOnScheduler
CreateOneRun(ctx, f, runToReplay) ==
    [err |-> CreateRun(ctx, f, runToReplay).err,
     io |-> CreateRun(ctx, f, runToReplay).io,
     sched |-> CreateRun(ctx, f, runToReplay).sched]

\* ReplayRunAfterFetch that clears the run whether it exists or not
ReplayRunClearAlways(f, runToReplay, got) ==
    IF got.err # NoErr THEN [err |-> got.err, io |-> got.io, sched |-> got.sched]
    ELSE ClearRun(got, f, runToReplay)

\* replayRunOnScheduler after its fetchRun: CreateRun when the run does not
\* exist, the error when fetchRun failed otherwise, Clear when the run exists
ReplayRunAfterFetch(f, runToReplay, got) ==
    IF got.err # NoErr THEN [err |-> got.err, io |-> got.io, sched |-> got.sched]
    ELSE IF ~got.found
    THEN CreateOneRun([io |-> got.io, sched |-> got.sched, errs |-> ""], f, runToReplay)
    ELSE ClearRun(got, f, runToReplay)

\* replayRunOnScheduler
replayRunOnScheduler(req, ctx, f, runToReplay) ==
    ReplayRunAfterFetch(f, runToReplay, fetchRun(req, ctx, f, runToReplay.scheduledAt))

\* identifyUpdatedRunStatus that looks at every run, in progress or not
identifyUpdatedRunStatusOfAll(existingJobRuns, incomingJobRuns) ==
    [t \in {existingJobRuns[i].scheduledAt : i \in
              {j \in DOMAIN existingJobRuns :
                  Lookup(ToRunStatusMap(incomingJobRuns), existingJobRuns[j].scheduledAt)
                        \in {StateSuccess, StateFailed}}}
      |-> ToRunStatusMap(incomingJobRuns)[t]]

\* identifyUpdatedRunStatus: scheduledAt -> new state, for the runs in progress
\* that the scheduler reports as success or failed
identifyUpdatedRunStatus(existingJobRuns, incomingJobRuns) ==
    [t \in {existingJobRuns[i].scheduledAt : i \in
              {j \in DOMAIN existingJobRuns :
                  /\ existingJobRuns[j].state = StateInProgress
                  /\ Lookup(ToRunStatusMap(incomingJobRuns), existingJobRuns[j].scheduledAt)
                        \in {StateSuccess, StateFailed}}}
      |-> ToRunStatusMap(incomingJobRuns)[t]]

\* what a handler hands back: its error, the calls and the scheduler table
\* after it, whether it panicked, and the UpdateReplay it got through
Handled(e, ctx, panicked, written, st, rs, msg) ==
    [err |-> e, io |-> ctx.io, sched |-> ctx.sched, panic |-> panicked,
     written |-> written, state |-> st, runs |-> rs, message |-> msg]

\* replayRepo.UpdateReplay as the last step of a handler: all or nothing
UpdateReplay(ctx, f, st, rs, msg) ==
    [err |-> IF f.fail = "UpdateReplay" THEN ErrUpdateReplay ELSE NoErr,
     io |-> Append(ctx.io, Call("UpdateReplay", 0, 0, "",
                                IF f.fail = "UpdateReplay" THEN ErrUpdateReplay ELSE NoErr)),
     sched |-> ctx.sched, panic |-> FALSE,
     written |-> f.fail # "UpdateReplay",
     state |-> st, runs |-> rs, message |-> msg]

\* a handler that returns err before any UpdateReplay
Failed(e, ctx) == Handled(e, ctx, FALSE, FALSE, "", <<>>, "")

\* AllInProgress that loses the last run
AllInProgressButLast(rs) ==
    [i \in 1..(Len(rs) - 1) |-> JobRunStatus(rs[i].scheduledAt, StateInProgress)]

\* every run of the vector as a new JobRunStatus in progress
AllInProgress(rs) ==
    [i \in DOMAIN rs |-> JobRunStatus(rs[i].scheduledAt, StateInProgress)]

\* ParallelAfterCreate that leaves the runs as they were
ParallelAfterCreateUnmarked(req, created) ==
    [err |-> created.err, io |-> created.io, sched |-> created.sched, panic |-> FALSE,
     runs |-> IF created.err # NoErr THEN <<>> ELSE req.runs]

\* processNewReplayRequestParallel after ClearBatch succeeded and
\* createMissingRuns returned
ParallelAfterCreate(req, created) ==
    [err |-> created.err, io |-> created.io, sched |-> created.sched, panic |-> FALSE,
     runs |-> IF created.err # NoErr THEN <<>> ELSE AllInProgress(req.runs)]

\* processNewReplayRequestParallel from its ClearBatch on
ParallelClearBatch(req, ctx, f, startLogicalTime, endLogicalTime) ==
    IF f.fail = "ClearBatch"
    THEN [err |-> ErrClearBatch,
          io |-> Append(ctx.io, Call("ClearBatch", startLogicalTime, endLogicalTime, "",
                                     ErrClearBatch)),
          sched |-> ctx.sched, panic |-> FALSE, runs |-> <<>>]
    ELSE ParallelAfterCreate(req,
            createMissingRuns(req,
                [io |-> Append(ctx.io, Call("ClearBatch", startLogicalTime, endLogicalTime, "",
                                            NoErr)),
                 sched |-> SchedClearBatch(ctx.sched, startLogicalTime, endLogicalTime)],
                f))

\* processNewReplayRequestParallel that clears up to the first run only
ParallelClearFirstRunOnly(req, ctx, f) ==
    IF GetFirstExecutableRun(req.runs) = NilRun
    THEN [err |-> ErrNilDeref, io |-> ctx.io, sched |-> ctx.sched, panic |-> TRUE,
          runs |-> <<>>]
    ELSE ParallelClearBatch(req, ctx, f,
            GetLogicalTime(GetFirstExecutableRun(req.runs)),
            GetLogicalTime(GetFirstExecutableRun(req.runs)))

\* processNewReplayRequestParallel: GetLogicalTime through a nil run panics
processNewReplayRequestParallel(req, ctx, f) ==
    IF GetFirstExecutableRun(req.runs) = NilRun
    THEN [err |-> ErrNilDeref, io |-> ctx.io, sched |-> ctx.sched, panic |-> TRUE,
          runs |-> <<>>]
    ELSE ParallelClearBatch(req, ctx, f,
            GetLogicalTime(GetFirstExecutableRun(req.runs)),
            GetLogicalTime(GetLastExecutableRun(req.runs)))

\* SequentialAfterReplay that leaves the replayed run pending
SequentialAfterReplayUnmarked(req, runToReplay, replayed) ==
    [err |-> replayed.err, io |-> replayed.io, sched |-> replayed.sched, panic |-> FALSE,
     runs |-> IF replayed.err # NoErr THEN <<>> ELSE req.runs]

\* SequentialAfterReplay that marks every run of the vector in progress
SequentialAfterReplayAllMarked(req, runToReplay, replayed) ==
    [err |-> replayed.err, io |-> replayed.io, sched |-> replayed.sched, panic |-> FALSE,
     runs |-> IF replayed.err # NoErr THEN <<>> ELSE AllInProgress(req.runs)]

\* processNewReplayRequestSequential after replayRunOnScheduler returned
SequentialAfterReplay(req, runToReplay, replayed) ==
    [err |-> replayed.err, io |-> replayed.io, sched |-> replayed.sched, panic |-> FALSE,
     runs |-> IF replayed.err # NoErr THEN <<>>
              ELSE MergeWithUpdatedRuns(req.runs,
                      [t \in {runToReplay.scheduledAt} |-> StateInProgress])]

\* processNewReplayRequestSequential with its runToReplay
SequentialReplay(req, ctx, f, runToReplay) ==
    IF runToReplay = NilRun
    THEN [err |-> NoErr, io |-> ctx.io, sched |-> ctx.sched, panic |-> FALSE,
          runs |-> req.runs]
    ELSE SequentialAfterReplay(req, runToReplay,
            replayRunOnScheduler(req, ctx, f, runToReplay))

\* processNewReplayRequestSequential
processNewReplayRequestSequential(req, ctx, f) ==
    SequentialReplay(req, ctx, f, GetFirstExecutableRun(req.runs))

\* NewReplayState that takes every sequential replay to partial replayed
NewReplayStateSequentialPartial(req) ==
    IF ~req.parallel THEN ReplayStatePartialReplayed ELSE ReplayStateReplayed

\* the replay state processNewReplayRequest persists
NewReplayState(req) ==
    IF ~req.parallel /\ Len(req.runs) > 1
    THEN ReplayStatePartialReplayed ELSE ReplayStateReplayed

\* processNewReplayRequest after the parallel or sequential part returned
NewReplayPersist(req, f, updated) ==
    IF updated.panic THEN Handled(updated.err, updated, TRUE, FALSE, "", <<>>, "")
    ELSE IF updated.err # NoErr THEN Failed(updated.err, updated)
    ELSE UpdateReplay(updated, f, NewReplayState(req), updated.runs, "")

\* processNewReplayRequest
processNewReplayRequest(req, ctx, f) ==
    NewReplayPersist(req, f,
        IF req.parallel THEN processNewReplayRequestParallel(req, ctx, f)
        ELSE processNewReplayRequestSequential(req, ctx, f))

\* PartialPersist that persists replayed whether a run is pending or not
PartialPersistReplayed(ctx, f, updatedRuns) ==
    UpdateReplay(ctx, f, ReplayStateReplayed, updatedRuns, "")

\* the end of processPartialReplayedRequest: replayed when no run is pending
PartialPersist(ctx, f, updatedRuns) ==
    UpdateReplay(ctx, f,
        IF Len(GetSortedRunsByStates(updatedRuns, {StatePending})) = 0
        THEN ReplayStateReplayed ELSE ReplayStatePartialReplayed,
        updatedRuns, "")

\* WithInProgress that leaves the map as it is
WithInProgressUnmarked(updatedReplayMap, scheduledAt) == updatedReplayMap

\* updatedReplayMap[runToReplay.ScheduledAt] = StateInProgress
WithInProgress(updatedReplayMap, scheduledAt) ==
    [t \in DOMAIN updatedReplayMap \cup {scheduledAt} |->
        IF t = scheduledAt THEN StateInProgress ELSE updatedReplayMap[t]]

\* PartialAfterReplay that decides the replay state before the run it has
\* just replayed is marked in progress
PartialAfterReplayStateBefore(f, updatedReplayMap, updatedRuns, runToReplay, replayed) ==
    IF replayed.err # NoErr THEN Failed(replayed.err, replayed)
    ELSE UpdateReplay(replayed, f, ReplayStatePartialReplayed,
            MergeWithUpdatedRuns(updatedRuns,
                WithInProgress(updatedReplayMap, runToReplay.scheduledAt)),
            "")

\* processPartialReplayedRequest after replayRunOnScheduler returned
PartialAfterReplay(f, updatedReplayMap, updatedRuns, runToReplay, replayed) ==
    IF replayed.err # NoErr THEN Failed(replayed.err, replayed)
    ELSE PartialPersist(replayed, f,
            MergeWithUpdatedRuns(updatedRuns,
                WithInProgress(updatedReplayMap, runToReplay.scheduledAt)))

\* PartialDispatch that replays the latest pending run
PartialDispatchLatest(req, ctx, f, updatedReplayMap, updatedRuns, replayedRuns, toBeReplayedRuns) ==
    IF Len(replayedRuns) = 0 /\ Len(toBeReplayedRuns) > 0
    THEN PartialAfterReplay(f, updatedReplayMap, updatedRuns,
            toBeReplayedRuns[Len(toBeReplayedRuns)],
            replayRunOnScheduler(req, ctx, f, toBeReplayedRuns[Len(toBeReplayedRuns)]))
    ELSE PartialPersist(ctx, f, updatedRuns)

\* PartialDispatch that replays the next run while another is in progress
PartialDispatchWhilePending(req, ctx, f, updatedReplayMap, updatedRuns, replayedRuns, toBeReplayedRuns) ==
    IF Len(toBeReplayedRuns) > 0
    THEN PartialAfterReplay(f, updatedReplayMap, updatedRuns, toBeReplayedRuns[1],
            replayRunOnScheduler(req, ctx, f, toBeReplayedRuns[1]))
    ELSE PartialPersist(ctx, f, updatedRuns)

\* processPartialReplayedRequest with the merged vector: the earliest pending
\* run is replayed when no run is in progress and a run is pending
PartialDispatch(req, ctx, f, updatedReplayMap, updatedRuns, replayedRuns, toBeReplayedRuns) ==
    IF Len(replayedRuns) = 0 /\ Len(toBeReplayedRuns) > 0
    THEN PartialAfterReplay(f, updatedReplayMap, updatedRuns, toBeReplayedRuns[1],
            replayRunOnScheduler(req, ctx, f, toBeReplayedRuns[1]))
    ELSE PartialPersist(ctx, f, updatedRuns)

\* the message of a replay that ends failed because of its runs
FailedRunsMessage(n) == "found " \o ToString(n) \o " failed runs."

\* PartialMerge that ends the replay as failed as soon as a run has failed
PartialMergeStopOnFailed(req, ctx, f, updatedReplayMap, updatedRuns) ==
    IF Len(GetSortedRunsByStates(updatedRuns, {StateFailed})) > 0
    THEN UpdateReplay(ctx, f, ReplayStateFailed, updatedRuns,
                      FailedRunsMessage(Len(GetSortedRunsByStates(updatedRuns, {StateFailed}))))
    ELSE PartialDispatch(req, ctx, f, updatedReplayMap, updatedRuns,
            GetSortedRunsByStates(updatedRuns, {StateInProgress}),
            GetSortedRunsByStates(updatedRuns, {StatePending}))

\* processPartialReplayedRequest with updatedReplayMap
PartialMerge(req, ctx, f, updatedReplayMap, updatedRuns) ==
    PartialDispatch(req, ctx, f, updatedReplayMap, updatedRuns,
        GetSortedRunsByStates(updatedRuns, {StateInProgress}),
        GetSortedRunsByStates(updatedRuns, {StatePending}))

\* processPartialReplayedRequest after its fetchRuns
PartialAfterFetch(req, f, incoming) ==
    IF incoming.err # NoErr THEN Failed(incoming.err, incoming)
    ELSE PartialMerge(req, incoming, f,
            identifyUpdatedRunStatus(req.runs, incoming.runs),
            MergeWithUpdatedRuns(req.runs, identifyUpdatedRunStatus(req.runs, incoming.runs)))

\* processPartialReplayedRequest
processPartialReplayedRequest(req, ctx, f) ==
    PartialAfterFetch(req, f, fetchRuns(req, ctx, f))

\* ReplayedPersist that takes failed runs for finished ones
ReplayedPersistIgnoringFailed(ctx, f, updatedRuns, inProgressRuns, failedRuns) ==
    IF Len(inProgressRuns) = 0
    THEN UpdateReplay(ctx, f, ReplayStateSuccess, updatedRuns, "")
    ELSE UpdateReplay(ctx, f, ReplayStateReplayed, updatedRuns, "")

\* ReplayedPersist that takes a replay with runs in progress back to
\* partial replayed
ReplayedPersistBackToPartial(ctx, f, updatedRuns, inProgressRuns, failedRuns) ==
    IF Len(inProgressRuns) = 0 /\ Len(failedRuns) = 0
    THEN UpdateReplay(ctx, f, ReplayStateSuccess, updatedRuns, "")
    ELSE IF Len(inProgressRuns) = 0 /\ Len(failedRuns) > 0
    THEN UpdateReplay(ctx, f, ReplayStateFailed, updatedRuns,
                      FailedRunsMessage(Len(failedRuns)))
    ELSE UpdateReplay(ctx, f, ReplayStatePartialReplayed, updatedRuns, "")

\* processReplayedRequest with the runs in progress and the failed runs of
\* the merged vector
ReplayedPersist(ctx, f, updatedRuns, inProgressRuns, failedRuns) ==
    IF Len(inProgressRuns) = 0 /\ Len(failedRuns) = 0
    THEN UpdateReplay(ctx, f, ReplayStateSuccess, updatedRuns, "")
    ELSE IF Len(inProgressRuns) = 0 /\ Len(failedRuns) > 0
    THEN UpdateReplay(ctx, f, ReplayStateFailed, updatedRuns,
                      FailedRunsMessage(Len(failedRuns)))
    ELSE UpdateReplay(ctx, f, ReplayStateReplayed, updatedRuns, "")

\* processReplayedRequest with the merged vector
ReplayedMerge(ctx, f, updatedRuns) ==
    ReplayedPersist(ctx, f, updatedRuns,
        GetSortedRunsByStates(updatedRuns, {StateInProgress}),
        GetSortedRunsByStates(updatedRuns, {StateFailed}))

\* processReplayedRequest after its fetchRuns
ReplayedAfterFetch(req, f, incoming) ==
    IF incoming.err # NoErr THEN Failed(incoming.err, incoming)
    ELSE ReplayedMerge(incoming, f,
            MergeWithUpdatedRuns(req.runs, identifyUpdatedRunStatus(req.runs, incoming.runs)))

\* processReplayedRequest
processReplayedRequest(req, ctx, f) ==
    ReplayedAfterFetch(req, f, fetchRuns(req, ctx, f))

\* updateReplayAsFailed that writes the whole record, run vector included
updateReplayAsFailedWholeRecord(h, f) ==
    [write |-> IF f.statusFail THEN "none" ELSE "UpdateReplay",
     state |-> ReplayStateFailed, runs |-> h.runs, message |-> h.err,
     io |-> Append(h.io, Call("UpdateReplayStatus", 0, 0, "",
                              IF f.statusFail THEN ErrUpdateReplayStatus ELSE NoErr)),
     sched |-> h.sched, err |-> h.err]

\* updateReplayAsFailed that drops the error message
updateReplayAsFailedNoMessage(h, f) ==
    [write |-> IF f.statusFail THEN "none" ELSE "UpdateReplayStatus",
     state |-> ReplayStateFailed, runs |-> <<>>, message |-> "",
     io |-> Append(h.io, Call("UpdateReplayStatus", 0, 0, "",
                              IF f.statusFail THEN ErrUpdateReplayStatus ELSE NoErr)),
     sched |-> h.sched, err |-> h.err]

\* updateReplayAsFailed: UpdateReplayStatus(failed, message); its own error is
\* only logged.  The outcome of the tick: which write reached the repository.
updateReplayAsFailed(h, f) ==
    [write |-> IF f.statusFail THEN "none" ELSE "UpdateReplayStatus",
     state |-> ReplayStateFailed, runs |-> <<>>, message |-> h.err,
     io |-> Append(h.io, Call("UpdateReplayStatus", 0, 0, "",
                              IF f.statusFail THEN ErrUpdateReplayStatus ELSE NoErr)),
     sched |-> h.sched, err |-> h.err]

\* the switch of Process on the state of the request
ProcessState(req, ctx, f) ==
    CASE req.state = ReplayStateCreated -> processNewReplayRequest(req, ctx, f)
      [] req.state = ReplayStatePartialReplayed -> processPartialReplayedRequest(req, ctx, f)
      [] req.state = ReplayStateReplayed -> processReplayedRequest(req, ctx, f)
      [] OTHER -> Handled(NoErr, ctx, FALSE, FALSE, "", <<>>, "")

\* ProcessEnd that writes the status once more after the handler's UpdateReplay
ProcessEndStatusAgain(h, f) ==
    IF h.panic
    THEN [write |-> "none", state |-> "", runs |-> <<>>, message |-> "",
          io |-> h.io, sched |-> h.sched, err |-> h.err]
    ELSE IF h.err # NoErr THEN updateReplayAsFailed(h, f)
    ELSE [write |-> IF h.written THEN "UpdateReplay" ELSE "none",
          state |-> h.state, runs |-> h.runs, message |-> h.message,
          io |-> Append(h.io, Call("UpdateReplayStatus", 0, 0, "", NoErr)),
          sched |-> h.sched, err |-> NoErr]

\* the end of Process: a handler's error is persisted by updateReplayAsFailed;
\* a panic ends the goroutine with nothing written
ProcessEnd(h, f) ==
    IF h.panic
    THEN [write |-> "none", state |-> "", runs |-> <<>>, message |-> "",
          io |-> h.io, sched |-> h.sched, err |-> h.err]
    ELSE IF h.err # NoErr THEN updateReplayAsFailed(h, f)
    ELSE [write |-> IF h.written THEN "UpdateReplay" ELSE "none",
          state |-> h.state, runs |-> h.runs, message |-> h.message,
          io |-> h.io, sched |-> h.sched, err |-> NoErr]

\* the start of Process: getJobCron
ProcessCron(req, ctx, f) ==
    IF f.fail = "GetJobCron"
    THEN updateReplayAsFailed(Failed(ErrGetJobCron, ctx), f)
    ELSE ProcessEnd(ProcessState(req, ctx, f), f)

\* ReplayWorker.Process on the request req, with the scheduler table sch and
\* the call results f: what it writes, the calls it makes, its error
Process(req, sch, f) ==
    ProcessCron(req,
        [io |-> <<Call("GetJobCron", 0, 0, "",
                       IF f.fail = "GetJobCron" THEN ErrGetJobCron ELSE NoErr)>>,
         sched |-> sch],
        f)

\* ------------------------------------------------------------------------
\* InputCompiler.Compile: the executor input of one run of a task or a hook.
\* Its collaborators are the tenant service, the window resolver, the asset
\* compiler and the template compiler; in names what each of them returns.

ExecutorTask == "task"
ExecutorHook == "hook"

\* the keys of the system defined variables, and the key of the job labels
SystemKeys == {"DSTART", "DEND", "EXECUTION_TIME", "JOB_DESTINATION"}
JobAttributionLabelsKey == "JOB_LABELS"

\* the template compilations of a Compile: plain and secret partition of the
\* task's config, plain and secret partition of the hook's config
TaskConf == "task.conf"
TaskSecret == "task.secret"
HookConf == "hook.conf"
HookSecret == "hook.secret"
TemplateCalls == {TaskConf, TaskSecret, HookConf, HookSecret}

\* what the template compiler returns for a partition: an error, an empty
\* map, or a map with one key
TemplateFails == "<error>"
TemplateEmpty == "<empty>"
OutputKeys == {"some.config.compiled", "secret.config.compiled", "DSTART"}
TemplateOutputs == OutputKeys \cup {TemplateEmpty, TemplateFails}

ErrGetDetails == "get details error"
ErrGetInterval == "failed to parse task window"
ErrCompileJobRunAssets == "CompileJobRunAssets error"
ErrTemplate(call) == call \o " compilation error"
HookNotFoundPrefix == "not found for entity jobRun: "
ErrHookNotFound(name) == HookNotFoundPrefix \o "hook:" \o name

\* the hooks a job can have, by name, and the executor names asked for
HookNames == {"predator", "transformer"}
HookLists == {<<>>, <<"transformer">>, <<"predator">>, <<"transformer", "predator">>}

CompileInputs ==
    [detailsErr : BOOLEAN, intervalErr : BOOLEAN, assetErr : BOOLEAN,
     type : {ExecutorTask, ExecutorHook}, name : {"predator"}, hooks : HookLists,
     out : [TemplateCalls -> TemplateOutputs]]

\* no Compile asked for
NoCompile ==
    [detailsErr |-> FALSE, intervalErr |-> FALSE, assetErr |-> FALSE,
     type |-> "", name |-> "", hooks |-> <<>>,
     out |-> [c \in TemplateCalls |-> TemplateEmpty]]

EmptyMap == [k \in {} |-> ""]

\* utils.MergeMaps: the entries of b over those of a
MergeMaps(a, b) ==
    [k \in DOMAIN a \cup DOMAIN b |-> IF k \in DOMAIN b THEN b[k] ELSE a[k]]

\* what Compile returns: the error, the ExecutorInput (nil: none) and the
\* calls made to the collaborators, in order
CompileResult(e, calls, isNil, configs, secrets, files) ==
    [done |-> TRUE, err |-> e, calls |-> calls, nil |-> isNil,
     configs |-> configs, secrets |-> secrets, files |-> files]

NotCompiled ==
    [done |-> FALSE, err |-> NoErr, calls |-> <<>>, nil |-> TRUE,
     configs |-> EmptyMap, secrets |-> EmptyMap, files |-> EmptyMap]

\* return nil, err
CompileFailed(e, calls) == CompileResult(e, calls, TRUE, EmptyMap, EmptyMap, EmptyMap)

\* getSystemDefinedConfigs
systemDefinedVars ==
    [k \in SystemKeys |->
        CASE k = "DSTART" -> "interval.Start"
          [] k = "DEND" -> "interval.End"
          [] k = "EXECUTION_TIME" -> "executedAt"
          [] OTHER -> "job.Destination"]

\* the files the asset compiler returns
compiledFile == [k \in {"someFileName"} |-> "fileContents"]

\* the job labels added to the compiled config of the task
WithJobLabels(confs) ==
    MergeMaps(confs, [k \in {JobAttributionLabelsKey} |-> "project=,namespace=,job_name=,job_id="])

\* templateCompiler.Compile of one partition
TemplateCompile(in, call) ==
    [err |-> IF in.out[call] = TemplateFails THEN ErrTemplate(call) ELSE NoErr,
     out |-> IF in.out[call] \in {TemplateFails, TemplateEmpty} THEN EmptyMap
             ELSE [k \in {in.out[call]} |-> call \o " value"]]

\* compileConfigs after the plain partition and the secret partition compiled
ConfigsCompiled(calls, conf, secret) ==
    IF secret.err # NoErr
    THEN [err |-> secret.err, confs |-> EmptyMap, secrets |-> EmptyMap, calls |-> calls]
    ELSE [err |-> NoErr, confs |-> conf.out, secrets |-> secret.out, calls |-> calls]

\* CompileSecrets that goes on to the secret partition after the plain
\* partition failed
CompileSecretsAnyway(in, calls, secretCall, conf) ==
    ConfigsCompiled(Append(calls, secretCall), conf, TemplateCompile(in, secretCall))

\* compileConfigs after the plain partition compiled
CompileSecrets(in, calls, secretCall, conf) ==
    IF conf.err # NoErr
    THEN [err |-> conf.err, confs |-> EmptyMap, secrets |-> EmptyMap, calls |-> calls]
    ELSE ConfigsCompiled(Append(calls, secretCall), conf, TemplateCompile(in, secretCall))

\* compileConfigs that compiles the config of the task whatever it is asked
compileConfigsOfTask(in, calls, confCall, secretCall) ==
    CompileSecrets(in, Append(calls, confCall), TaskSecret, TemplateCompile(in, TaskConf))

\* compileConfigs: the plain partition is compiled first, then the secret one
compileConfigs(in, calls, confCall, secretCall) ==
    CompileSecrets(in, Append(calls, confCall), secretCall, TemplateCompile(in, confCall))

\* JobWithDetails.GetHook
HasHook(in) == \E i \in DOMAIN in.hooks : in.hooks[i] = in.name

\* Compile for a hook, after the config of the hook compiled
HookCompiled(hook) ==
    IF hook.err # NoErr THEN CompileFailed(hook.err, hook.calls)
    ELSE CompileResult(NoErr, hook.calls, FALSE,
            MergeMaps(hook.confs, systemDefinedVars), hook.secrets, compiledFile)

\* CompileHook that takes any hook when the job has hooks
CompileAnyHook(in, calls) ==
    IF in.hooks = <<>> THEN CompileFailed(ErrHookNotFound(in.name), calls)
    ELSE HookCompiled(compileConfigs(in, calls, HookConf, HookSecret))

\* Compile for a hook: the hook of the executor's name, then its config
CompileHook(in, calls) ==
    IF ~HasHook(in) THEN CompileFailed(ErrHookNotFound(in.name), calls)
    ELSE HookCompiled(compileConfigs(in, calls, HookConf, HookSecret))

\* TaskCompiled that adds no job labels
TaskCompiledUnlabelled(in, task) ==
    IF task.err # NoErr THEN CompileFailed(task.err, task.calls)
    ELSE IF in.type = ExecutorTask
    THEN CompileResult(NoErr, task.calls, FALSE,
            MergeMaps(task.confs, systemDefinedVars), task.secrets, compiledFile)
    ELSE CompileHook(in, task.calls)

\* Compile after the config of the task compiled
TaskCompiled(in, task) ==
    IF task.err # NoErr THEN CompileFailed(task.err, task.calls)
    ELSE IF in.type = ExecutorTask
    THEN CompileResult(NoErr, task.calls, FALSE,
            MergeMaps(WithJobLabels(task.confs), systemDefinedVars), task.secrets,
            compiledFile)
    ELSE CompileHook(in, task.calls)

\* Compile from the asset compilation on
CompileAssets(in, calls) ==
    IF in.assetErr THEN CompileFailed(ErrCompileJobRunAssets, calls)
    ELSE TaskCompiled(in, compileConfigs(in, calls, TaskConf, TaskSecret))

\* CompileInterval that looks at the error of the interval after the assets
CompileIntervalLate(in, calls) ==
    IF in.intervalErr
    THEN CompileFailed(ErrGetInterval, Append(calls, "CompileJobRunAssets"))
    ELSE CompileAssets(in, Append(calls, "CompileJobRunAssets"))

\* Compile from the window interval on
CompileInterval(in, calls) ==
    IF in.intervalErr THEN CompileFailed(ErrGetInterval, calls)
    ELSE CompileAssets(in, Append(calls, "CompileJobRunAssets"))

\* Compile after tenantService.GetDetails
CompileDetails(in, calls) ==
    IF in.detailsErr THEN CompileFailed(ErrGetDetails, calls)
    ELSE CompileInterval(in, Append(calls, "GetInterval"))

\* InputCompiler.Compile
Compile(in) == CompileDetails(in, <<"GetDetails">>)

\* ------------------------------------------------------------------------
\* the state machine

\* the schedule points of the replay's run vector
Times == {runs[i].scheduledAt : i \in DOMAIN runs}

\* the replay request the repository hands out: the persisted replay with runs
ReplayWithRun ==
    [state |-> state, runs |-> runs, parallel |-> parallel,
     startTime |-> 1, endTime |-> Len(runs)]

\* a replay request is created with one pending run per schedule point of
\* [StartTime, EndTime]; the scheduler may or may not have runs for them
Init ==
    /\ state = ReplayStateCreated
    /\ \E n \in 0..MaxRuns :
         /\ runs = [i \in 1..n |-> JobRunStatus(i, StatePending)]
         /\ sched \in [1..n -> SchedStates]
    /\ message = ""
    /\ parallel \in BOOLEAN
    /\ last = "init"
    /\ from = ""
    /\ io = <<>>
    /\ err = NoErr
    /\ again = FALSE
    /\ ticks = 0
    /\ inflight = [w \in 1..NumWorkers |-> Idle]
    /\ elapsed = 0
    /\ cin = NoCompile
    /\ cout = NotCompiled

\* the repository and the scheduler after Process ran on req with outcome o,
\* and the record of the tick
Ticked(req, o) ==
    /\ state' = IF o.write = "none" THEN state ELSE o.state
    /\ runs' = IF o.write = "UpdateReplay" THEN o.runs ELSE runs
    /\ message' = IF o.write = "none" THEN message ELSE o.message
    /\ sched' = o.sched
    /\ last' = "tick"
    /\ from' = req.state
    /\ io' = o.io
    /\ err' = o.err
    /\ again' = (last = "tick" /\ err = NoErr /\ from \in NonTerminalStates)

\* a step that is no tick leaves no record of a tick
NoTick(what) ==
    /\ last' = what
    /\ from' = ""
    /\ io' = <<>>
    /\ err' = NoErr
    /\ again' = FALSE

\* one invocation of Process on the persisted replay
Tick ==
    /\ \E f \in Faults(state, parallel, Times) :
          Ticked(ReplayWithRun, Process(ReplayWithRun, sched, f))
    /\ UNCHANGED <<parallel, ticks, inflight, elapsed, cin, cout>>

\* the external scheduler: a run starts, finishes, is removed or is re-run
SchedulerReport ==
    /\ \E t \in DOMAIN sched, s \in SchedStates :
          /\ s # sched[t]
          /\ sched' = [sched EXCEPT ![t] = s]
    /\ NoTick("sched")
    /\ UNCHANGED <<state, runs, message, parallel, ticks, inflight, elapsed, cin, cout>>

Next == Tick \/ SchedulerReport

Spec == Init /\ [][Next]_vars

\* ------------------------------------------------------------------------
\* the sequential scenario: a sequential replay of at least two runs, no call
\* fails, and the scheduler reports every dispatched run as success before
\* the next tick

InitSeq == Init /\ ~parallel /\ Len(runs) >= 2

\* the runs of the persisted vector that are in progress
InProgressTimes == {runs[i].scheduledAt : i \in {j \in DOMAIN runs : runs[j].state = StateInProgress}}

SeqTick ==
    /\ ticks < Len(runs) + 2
    /\ \A t \in InProgressTimes : sched[t] = StateSuccess
    /\ Ticked(ReplayWithRun, Process(ReplayWithRun, sched, NoFault))
    /\ ticks' = ticks + 1
    /\ UNCHANGED <<parallel, inflight, elapsed, cin, cout>>

SeqSchedulerSucceeds ==
    /\ \E t \in InProgressTimes :
          /\ sched[t] # StateSuccess
          /\ sched' = [sched EXCEPT ![t] = StateSuccess]
    /\ NoTick("sched")
    /\ UNCHANGED <<state, runs, message, parallel, ticks, inflight, elapsed, cin, cout>>

NextSeq == SeqTick \/ SeqSchedulerSucceeds

SpecSeq == InitSeq /\ [][NextSeq]_vars

\* ------------------------------------------------------------------------
\* the replay executor: the loop that hands pending replay requests to worker
\* goroutines

\* NotAssigned without the key
AssignedOrNot == TRUE

\* the replay is not assigned to a worker in flight (the key is the replay id)
NotAssigned == \A w \in DOMAIN inflight : inflight[w] = Idle

\* one iteration of the loop: a replay in a state that is not terminal and not
\* assigned to a worker in flight is fetched and handed to a free worker
Dispatch(w) ==
    /\ inflight[w] = Idle
    /\ state \in NonTerminalStates
    /\ NotAssigned
    /\ inflight' = [inflight EXCEPT ![w] = ReplayWithRun]
    /\ NoTick("dispatch")
    /\ UNCHANGED <<state, runs, message, parallel, sched, ticks, elapsed, cin, cout>>

\* the worker goroutine: Process on the request it was handed
Work(w) ==
    /\ inflight[w] # Idle
    /\ \E f \in Faults(inflight[w].state, inflight[w].parallel, Times) :
          Ticked(inflight[w], Process(inflight[w], sched, f))
    /\ inflight' = [inflight EXCEPT ![w] = Idle]
    /\ UNCHANGED <<parallel, ticks, elapsed, cin, cout>>

NextDispatch ==
    \/ \E w \in DOMAIN inflight : Dispatch(w)
    \/ \E w \in DOMAIN inflight : Work(w)
    \/ SchedulerReport

SpecDispatch == Init /\ [][NextDispatch]_vars

\* ------------------------------------------------------------------------
\* the timed scenario: hours pass while the replay is processed, and the
\* scheduler never finishes a run

\* config.ReplayConfig.ReplayTimeout, in hours
ReplayTimeout == 3

InitTimeout == Init /\ \A t \in DOMAIN sched : sched[t] \in {NoRun, StateInProgress}

\* an hour passes while the replay is in a state that is not terminal
HourPasses ==
    /\ state \in NonTerminalStates
    /\ elapsed <= ReplayTimeout
    /\ elapsed' = elapsed + 1
    /\ NoTick("clock")
    /\ UNCHANGED <<state, runs, message, parallel, sched, ticks, inflight, cin, cout>>

NextTimeout == Tick \/ HourPasses

SpecTimeout == InitTimeout /\ [][NextTimeout]_vars

\* ------------------------------------------------------------------------
\* the executor input compiler: one Compile for each choice of its arguments
\* and of what its collaborators return

InitCompile ==
    /\ state = ReplayStateCreated
    /\ runs = <<>>
    /\ sched = <<>>
    /\ message = ""
    /\ parallel = FALSE
    /\ last = "init"
    /\ from = ""
    /\ io = <<>>
    /\ err = NoErr
    /\ again = FALSE
    /\ ticks = 0
    /\ inflight = [w \in 1..NumWorkers |-> Idle]
    /\ elapsed = 0
    /\ cin \in CompileInputs
    /\ cout = NotCompiled

CompileStep ==
    /\ ~cout.done
    /\ cout' = Compile(cin)
    /\ UNCHANGED <<state, runs, message, parallel, sched, last, from, io, err, again,
                   ticks, inflight, elapsed, cin>>

NextCompile == CompileStep

SpecCompile == InitCompile /\ [][NextCompile]_vars

\* ------------------------------------------------------------------------
\* the job_name label of JOB_LABELS: the label of each job name of a bounded
\* set.  A name is a sequence of characters; the characters stand for a
\* lowercase letter, an uppercase letter, a digit, the dash, the underscore
\* and a character no label may have.

\* the replay worker's variables, and their values when no replay is processed
replayVars == <<state, runs, message, parallel, sched, last, from, io, err, again,
                ticks, inflight, elapsed>>

NoReplay ==
    /\ state = ReplayStateCreated
    /\ runs = <<>>
    /\ sched = <<>>
    /\ message = ""
    /\ parallel = FALSE
    /\ last = "init"
    /\ from = ""
    /\ io = <<>>
    /\ err = NoErr
    /\ again = FALSE
    /\ ticks = 0
    /\ inflight = [w \in 1..NumWorkers |-> Idle]
    /\ elapsed = 0

MaxLabelLength == 63
LabelCut == <<"_", "_">>

NameChars == {"a", "A", "9", "-", "_", "~"}
LabelChars == {"a", "9", "-"}

\* strings.ToLower on a character
ToLower(c) == IF c = "A" THEN "a" ELSE c

\* names are up to NameSlack characters longer than a label may be
NameSlack == 2
NameEnds == {<<>>} \cup [1..1 -> NameChars] \cup [1..2 -> NameChars]
NameStarts == {<<>>} \cup [1..1 -> NameChars]
NameFills == {0, 1} \cup ((MaxLabelLength - 3)..(MaxLabelLength + NameSlack - 2))
Fill(c, n) == [i \in 1..n |-> c]
JobNames ==
    {s \o Fill(c, n) \o e : s \in NameStarts, c \in NameChars, n \in NameFills,
                            e \in NameEnds} \ {<<>>}

\* the last n characters of name
LastChars(name, n) == SubSeq(name, Len(name) - n + 1, Len(name))

\* the characters no label may have become dashes
Replaced(name) == [i \in DOMAIN name |-> IF name[i] \in LabelChars THEN name[i] ELSE "-"]

\* the label that is as long as the name, of characters a label may have
Lowered(name) == Replaced([i \in DOMAIN name |-> ToLower(name[i])])

\* SanitiseLabel that cuts nothing
SanitiseLabelUncut(name) == Lowered(name)

\* the job_name label of a job name: lowercase, dashes for the characters no
\* label may have, and the last characters after a mark when the name is long
SanitiseLabel(name) ==
    IF Len(name) > MaxLabelLength
    THEN LabelCut \o Lowered(LastChars(name, MaxLabelLength - Len(LabelCut)))
    ELSE Lowered(name)

InitLabels ==
    /\ NoReplay
    /\ cin \in [jobName : JobNames]
    /\ cout = [done |-> FALSE, label |-> <<>>]

LabelStep ==
    /\ ~cout.done
    /\ cout' = [done |-> TRUE, label |-> SanitiseLabel(cin.jobName)]
    /\ UNCHANGED <<replayVars, cin>>

NextLabels == LabelStep

SpecLabels == InitLabels /\ [][NextLabels]_vars

\* ------------------------------------------------------------------------
\* the EXECUTION_TIME of the system defined variables: executedAt in the
\* layout TimeISOFormat.  An instant is the seconds since the epoch and the
\* nanoseconds of the second, with the offset of its zone in seconds; a text
\* in the layout has the fields of the wall clock and the offset of the zone.

Minute == 60
Hour == 60 * Minute
Day == 24 * Hour

Seconds == {0, 1, Minute - 1, Hour - 1, Hour, Day - 1, Day, Day + Hour + Minute + 1,
            2 * Day - 1, 365 * Day}
Nanoseconds == {0, 1, 500000000, 999999999}
ZoneOffsets == {0 - 5 * Hour, 0, 5 * Hour + 30 * Minute}
Instants == [unix : Seconds, nsec : Nanoseconds, offset : ZoneOffsets]

\* the wall clock of the instant t, in its zone
WallClock(t) == t.unix + t.offset

\* Time.Format(time.RFC3339) that writes every wall clock as UTC
FormatAsUTC(t) ==
    [day    |-> WallClock(t) \div Day,
     hour   |-> (WallClock(t) % Day) \div Hour,
     minute |-> (WallClock(t) % Hour) \div Minute,
     second |-> WallClock(t) % Minute,
     zone   |-> 0]

\* Time.Format(TimeISOFormat): date, time of day to the second, zone offset
Format(t) ==
    [day    |-> WallClock(t) \div Day,
     hour   |-> (WallClock(t) % Day) \div Hour,
     minute |-> (WallClock(t) % Hour) \div Minute,
     second |-> WallClock(t) % Minute,
     zone   |-> t.offset]

\* time.Parse(time.RFC3339, text)
Parse(text) ==
    [unix   |-> text.day * Day + text.hour * Hour + text.minute * Minute + text.second
                    - text.zone,
     nsec   |-> 0,
     offset |-> text.zone]

\* Time.Equal: the same instant, whatever the zones
TimeEqual(t, u) == t.unix = u.unix /\ t.nsec = u.nsec

InitTime ==
    /\ NoReplay
    /\ cin \in [executedAt : Instants]
    /\ cout = [done |-> FALSE, executionTime |-> Format([unix |-> 0, nsec |-> 0, offset |-> 0])]

\* Compile sets EXECUTION_TIME of the system defined variables
TimeStep ==
    /\ ~cout.done
    /\ cout' = [done |-> TRUE, executionTime |-> Format(cin.executedAt)]
    /\ UNCHANGED <<replayVars, cin>>

NextTime == TimeStep

SpecTime == InitTime /\ [][NextTime]_vars

\* ------------------------------------------------------------------------
\* the asset compiler of a job run (JobRunAssetsCompiler): one
\* CompileJobRunAssets for each choice of the job's assets and of what the
\* plugin repository, the plugin's dependency mod and the files compiler
\* return.  Every argument of a call is a map from strings to strings.

AssetNames == {"query.sql", "view.sql"}
AssetValues == {"select 1", "select {{.DSTART}}"}
AssetMaps == UNION {[names -> AssetValues] : names \in SUBSET AssetNames}
Asset(name, value) == [name |-> name, value |-> value]
Assets == {Asset(n, v) : n \in AssetNames, v \in AssetValues}
AssetLists == {<<>>} \cup [1..1 -> Assets] \cup [1..2 -> Assets]

TaskName == "bq2bq"

ErrGetByName == "plugin not found"
ErrCompileAssets == "unable to compile assets through the dependency mod"
ErrFilesCompile == "unable to compile files"

AssetInputs ==
    [pluginErr : BOOLEAN, dependencyMod : BOOLEAN, modErr : BOOLEAN, compileErr : BOOLEAN,
     assets : AssetMaps, modAssets : AssetLists]

\* plugin.Assets.ToMap: the value of a name is that of its last asset
ToMap(assets) ==
    [n \in {assets[i].name : i \in DOMAIN assets} |->
        assets[CHOOSE i \in DOMAIN assets :
                  /\ assets[i].name = n
                  /\ \A j \in DOMAIN assets : assets[j].name = n => j <= i].value]

AssetCall(op, arg) == [op |-> op, arg |-> arg]

\* c.pluginRepo.GetByName(job.Task.Name)
GetByName == AssetCall("GetByName", [k \in {"name"} |-> TaskName])

\* FilesCompiler.Compile of a file map that compiles
CompiledFiles(fileMap) == [n \in DOMAIN fileMap |-> fileMap[n] \o " compiled"]

AssetsResult(e, calls, isNil, files) ==
    [done |-> TRUE, err |-> e, calls |-> calls, nil |-> isNil, files |-> files]

\* return nil, err
AssetsFailed(e, calls) == AssetsResult(e, calls, TRUE, EmptyMap)

\* CompileJobRunAssets from c.compiler.Compile on
CompileInputFiles(in, calls, inputFiles) ==
    IF in.compileErr
    THEN AssetsFailed(ErrFilesCompile, Append(calls, AssetCall("Compile", inputFiles)))
    ELSE AssetsResult(NoErr, Append(calls, AssetCall("Compile", inputFiles)), FALSE,
                      CompiledFiles(inputFiles))

\* AssetsOfMod that leaves the assets of the job as the input files
AssetsOfModDropped(in, calls) ==
    IF in.modErr THEN AssetsFailed(ErrCompileAssets, calls)
    ELSE CompileInputFiles(in, calls, in.assets)

\* CompileJobRunAssets after DependencyMod.CompileAssets
AssetsOfMod(in, calls) ==
    IF in.modErr THEN AssetsFailed(ErrCompileAssets, calls)
    ELSE CompileInputFiles(in, calls, ToMap(in.modAssets))

\* CompileJobRunAssets after the plugin was found
AssetsOfPlugin(in, calls) ==
    IF in.dependencyMod
    THEN AssetsOfMod(in, Append(calls, AssetCall("CompileAssets", in.assets)))
    ELSE CompileInputFiles(in, calls, in.assets)

\* JobRunAssetsCompiler.CompileJobRunAssets
CompileJobRunAssets(in) ==
    IF in.pluginErr THEN AssetsFailed(ErrGetByName, <<GetByName>>)
    ELSE AssetsOfPlugin(in, <<GetByName>>)

InitAssets ==
    /\ NoReplay
    /\ cin \in AssetInputs
    /\ cout = [done |-> FALSE, err |-> NoErr, calls |-> <<>>, nil |-> TRUE, files |-> EmptyMap]

AssetsStep ==
    /\ ~cout.done
    /\ cout' = CompileJobRunAssets(cin)
    /\ UNCHANGED <<replayVars, cin>>

NextAssets == AssetsStep

SpecAssets == InitAssets /\ [][NextAssets]_vars

\* ------------------------------------------------------------------------
\* compileConfig of the plugin service (JobPluginService): one compileConfig
\* for each config of a bounded set and each choice of the templates the
\* engine cannot compile.  The configs are ranged over in any order.

ConfigKeys == {"PROJECT", "DATASET", "TABLE"}
Templates == {"plain", "{{.proj.NAME}}", "{{.secret.KEY}}"}
JobConfigs == UNION {[keys -> Templates] : keys \in SUBSET ConfigKeys}
ConfigInputs == [configs : JobConfigs, fails : [Templates -> BOOLEAN]]

\* the orders a range over the map may take
RangeOrders(m) ==
    {o \in [1..Cardinality(DOMAIN m) -> DOMAIN m] :
        \A i, j \in DOMAIN o : o[i] = o[j] => i = j}

\* p.engine.CompileString of a template that compiles
CompileString(val) == val \o " compiled"

PluginConfig(name, value) == [name |-> name, value |-> value]

\* CompiledConfig that gives up the value of a template that fails
CompiledConfigOrNothing(in, key) ==
    IF in.fails[in.configs[key]] THEN PluginConfig(key, "")
    ELSE PluginConfig(key, CompileString(in.configs[key]))

\* the body of the loop of compileConfig: the plugin config of one key
CompiledConfig(in, key) ==
    IF in.fails[in.configs[key]] THEN PluginConfig(key, in.configs[key])
    ELSE PluginConfig(key, CompileString(in.configs[key]))

\* JobPluginService.compileConfig, ranging over the configs in the order o
compileConfig(in, o) == [i \in DOMAIN o |-> CompiledConfig(in, o[i])]

InitConfig ==
    /\ NoReplay
    /\ cin \in ConfigInputs
    /\ cout = [done |-> FALSE, pluginConfigs |-> <<>>]

ConfigStep ==
    /\ ~cout.done
    /\ \E o \in RangeOrders(cin.configs) :
          cout' = [done |-> TRUE, pluginConfigs |-> compileConfig(cin, o)]
    /\ UNCHANGED <<replayVars, cin>>

NextConfig == ConfigStep

SpecConfig == InitConfig /\ [][NextConfig]_vars

\* ------------------------------------------------------------------------
\* the merge of observed statuses into a run vector: one merge for each
\* persisted vector of up to MaxRuns runs and each observation, in which a
\* run is absent or has any status

StateMissing == "missing"
RunStates == {StatePending, StateInProgress, StateSuccess, StateFailed}
ObservedStates == RunStates \cup {StateMissing}

MergeInputs ==
    UNION {[existing : [1..n -> RunStates], observed : [1..n -> ObservedStates \cup {NoRun}]]
              : n \in 0..MaxRuns}

\* the persisted vector of a merge: one run for each schedule point
ExistingRuns(in) == [i \in DOMAIN in.existing |-> JobRunStatus(i, in.existing[i])]

\* the runs of the scheduler in the observation
IncomingRuns(in) == GetJobRuns(in.observed, 1, Len(in.observed))

\* the vector after identifyUpdatedRunStatus and MergeWithUpdatedRuns
MergedRuns(in) ==
    MergeWithUpdatedRuns(ExistingRuns(in),
                         identifyUpdatedRunStatus(ExistingRuns(in), IncomingRuns(in)))

InitMerge ==
    /\ NoReplay
    /\ cin \in MergeInputs
    /\ cout = [done |-> FALSE, updatedRuns |-> <<>>]

MergeStep ==
    /\ ~cout.done
    /\ cout' = [done |-> TRUE, updatedRuns |-> MergedRuns(cin)]
    /\ UNCHANGED <<replayVars, cin>>

NextMerge == MergeStep

SpecMerge == InitMerge /\ [][NextMerge]_vars

\* ------------------------------------------------------------------------
\* the fair scenario: the executor keeps handing the replay to the worker
\* while it is in a state that is not terminal, no call fails, and the
\* scheduler finishes every run it is running, with success or with failed

\* one tick of the fair scenario; ticks holds the parity of the ticks taken
FairTick ==
    /\ state \in NonTerminalStates
    /\ Ticked(ReplayWithRun, Process(ReplayWithRun, sched, NoFault))
    /\ ticks' = 1 - ticks
    /\ UNCHANGED <<parallel, inflight, elapsed, cin, cout>>

\* a tick is taken: FairTick is enabled exactly when the state is not
\* terminal, and the ticks are the only steps that turn ticks
TickTaken == state \in NonTerminalStates /\ ticks' = 1 - ticks

SchedulerFinishes ==
    /\ \E t \in DOMAIN sched, s \in TerminalStates :
          /\ sched[t] = StateInProgress
          /\ sched' = [sched EXCEPT ![t] = s]
    /\ NoTick("sched")
    /\ UNCHANGED <<state, runs, message, parallel, ticks, inflight, elapsed, cin, cout>>

NextFair == FairTick \/ SchedulerFinishes

SpecFair == Init /\ [][NextFair]_vars /\ WF_ticks(TickTaken) /\ WF_vars(SchedulerFinishes)

\* ------------------------------------------------------------------------
\* properties

\* the runs of rs in state st
CountIn(rs, st) == Cardinality({i \in DOMAIN rs : rs[i].state = st})

\* the index of the earliest pending run of rs
EarliestPending(rs) ==
    CHOOSE i \in DOMAIN rs :
        /\ rs[i].state = StatePending
        /\ \A j \in DOMAIN rs :
              rs[j].state = StatePending =>
                  \/ rs[i].scheduledAt < rs[j].scheduledAt
                  \/ (rs[i].scheduledAt = rs[j].scheduledAt /\ i <= j)

\* rs with run k in progress
MarkedInProgress(rs, k) == [rs EXCEPT ![k].state = StateInProgress]

\* the persisted runs with the success or failed that the scheduler reports
\* laid over the runs in progress
Merged ==
    [i \in DOMAIN runs |->
        IF /\ runs[i].state = StateInProgress
           /\ sched[runs[i].scheduledAt] \in {StateSuccess, StateFailed}
        THEN JobRunStatus(runs[i].scheduledAt, sched[runs[i].scheduledAt])
        ELSE runs[i]]

\* the calls of a tick that change the scheduler
Mutations(calls) == SelectSeq(calls, LAMBDA c : c.op \in {"Clear", "ClearBatch", "CreateRun"})

\* a call that did not fail
Ok(op, a, b, prefix) == Call(op, a, b, prefix, NoErr)

\* the calls of replayRunOnScheduler for the run at scheduledAt that succeed
IsDispatchOf(calls, scheduledAt) ==
    /\ Len(calls) = 2
    /\ calls[1] = Ok("GetJobRuns", scheduledAt, scheduledAt, "")
    /\ \/ calls[2] = Ok("Clear", scheduledAt - 1, 0, "")
       \/ calls[2] = Ok("CreateRun", scheduledAt - 1, 0, "replayed")

\* C1: once the persisted state is success or failed, no invocation of
\* Process changes the persisted state, run vector or message
C1_TerminalReplayNotMutated ==
    [][(last' = "tick" /\ state \in TerminalStates)
        => (state' = state /\ runs' = runs /\ message' = message)]_vars

\* a call of the tick other than UpdateReplayStatus returned an error
SomeCallFailed(calls) ==
    \E i \in DOMAIN calls : calls[i].op # "UpdateReplayStatus" /\ calls[i].res # NoErr

\* C2 as stated: whenever a call of a tick fails, the persisted state after
\* the tick is failed and the persisted message is the error's message
C2_ErrorPersistsFailed ==
    (last = "tick" /\ SomeCallFailed(io))
        => (err # NoErr /\ state = ReplayStateFailed /\ message = err)

\* C2 amended: whenever a call of a tick fails, the last call of the tick is
\* UpdateReplayStatus; if that write succeeds the persisted state is failed
\* and the persisted message is the error's message, and if it fails the
\* persisted state and message are left as they were
C2_ErrorPersistsFailedIfWritten ==
    [][(last' = "tick" /\ SomeCallFailed(io'))
        => /\ err' # NoErr
           /\ io'[Len(io')].op = "UpdateReplayStatus"
           /\ io'[Len(io')].res = NoErr => (state' = ReplayStateFailed /\ message' = err')
           /\ io'[Len(io')].res # NoErr => (state' = state /\ message' = message)]_vars

C2_Witness ==
    /\ last = "tick"
    /\ err = ErrUpdateReplay
    /\ io[Len(io)] = Ok("UpdateReplayStatus", 0, 0, "")
    /\ state = ReplayStateFailed
    /\ message = ErrUpdateReplay

\* a tick without error on a sequential replay in state created that has a
\* pending run
SequentialStart ==
    /\ last' = "tick"
    /\ err' = NoErr
    /\ state = ReplayStateCreated
    /\ ~parallel
    /\ CountIn(runs, StatePending) > 0

\* the tick replays the earliest pending run and marks exactly it in progress
SequentialStartDispatch ==
    /\ Len(io') = 4
    /\ io'[1] = Ok("GetJobCron", 0, 0, "")
    /\ IsDispatchOf(SubSeq(io', 2, 3), runs[EarliestPending(runs)].scheduledAt)
    /\ io'[4] = Ok("UpdateReplay", 0, 0, "")
    /\ runs' = MarkedInProgress(runs, EarliestPending(runs))

\* a tick without error that changes the state of a sequential replay of one run
SingleRunStep ==
    last' = "tick" /\ err' = NoErr /\ ~parallel /\ Len(runs) = 1 /\ state' # state

\* C3 as stated: one tick on a sequential replay in state created with a
\* pending run replays the earliest pending run and persists partial replayed
\* with that run in progress, also for a replay of one run, which goes
\* created -> partial replayed -> replayed -> success or failed
C3_SequentialStartPartial ==
    [][/\ SequentialStart => (SequentialStartDispatch /\ state' = ReplayStatePartialReplayed)
       /\ SingleRunStep =>
            <<state, state'>> \in {<<ReplayStateCreated, ReplayStatePartialReplayed>>,
                                   <<ReplayStatePartialReplayed, ReplayStateReplayed>>,
                                   <<ReplayStateReplayed, ReplayStateSuccess>>,
                                   <<ReplayStateReplayed, ReplayStateFailed>>}]_vars

\* C3 amended: the tick replays the earliest pending run and marks exactly it
\* in progress; it persists partial replayed when the replay has more than one
\* run and replayed when it has one run, which goes created -> replayed ->
\* success or failed
C3_SequentialStartByRunCount ==
    [][/\ SequentialStart =>
            /\ SequentialStartDispatch
            /\ state' = IF Len(runs) > 1 THEN ReplayStatePartialReplayed
                        ELSE ReplayStateReplayed
       /\ SingleRunStep =>
            <<state, state'>> \in {<<ReplayStateCreated, ReplayStateReplayed>>,
                                   <<ReplayStateReplayed, ReplayStateSuccess>>,
                                   <<ReplayStateReplayed, ReplayStateFailed>>}]_vars

C3_Witness ==
    /\ last = "tick"
    /\ err = NoErr
    /\ from = ReplayStateCreated
    /\ ~parallel
    /\ Len(runs) = 1
    /\ runs[1].state = StateInProgress
    /\ state = ReplayStateReplayed

\* the CreateRun calls for the runs of the persisted vector that the scheduler
\* does not have, in the order of the vector
CreateCallsForMissing ==
    LET missing == SelectSeq(runs, LAMBDA r : sched[r.scheduledAt] = NoRun)
    IN [i \in DOMAIN missing |-> Ok("CreateRun", missing[i].scheduledAt - 1, 0, "replayed")]

\* C4: a tick without error on a parallel replay in state created calls, in
\* this order, ClearBatch over the logical times of the first and the last
\* run, GetJobRuns, CreateRun for each missing run, and UpdateReplay, which
\* persists replayed with every run in progress
C4_ParallelStart ==
    [][(last' = "tick" /\ err' = NoErr /\ state = ReplayStateCreated /\ parallel)
        => /\ Len(runs) > 0
           /\ io' = <<Ok("GetJobCron", 0, 0, ""),
                      Ok("ClearBatch", runs[1].scheduledAt - 1,
                         runs[Len(runs)].scheduledAt - 1, ""),
                      Ok("GetJobRuns", 1, Len(runs), "")>>
                    \o CreateCallsForMissing
                    \o <<Ok("UpdateReplay", 0, 0, "")>>
           /\ state' = ReplayStateReplayed
           /\ runs' = [i \in DOMAIN runs |->
                         JobRunStatus(runs[i].scheduledAt, StateInProgress)]]_vars

C4_Witness ==
    /\ last = "tick"
    /\ err = NoErr
    /\ from = ReplayStateCreated
    /\ parallel
    /\ Len(runs) = 3
    /\ Len(Mutations(io)) = 3
    /\ state = ReplayStateReplayed
    /\ \A i \in DOMAIN runs : runs[i].state = StateInProgress

\* the merged vector has no run in progress and has a pending run
MustDispatch == CountIn(Merged, StateInProgress) = 0 /\ CountIn(Merged, StatePending) > 0

\* C5: a tick without error on a replay in state partial replayed merges the
\* observed success and failed over the runs in progress; it replays the
\* earliest pending run and marks it in progress if and only if no run is in
\* progress and a run is pending, and issues no Clear or CreateRun otherwise;
\* it persists replayed if and only if no run is pending after that
C5_PartialReplayedTick ==
    [][(last' = "tick" /\ err' = NoErr /\ state = ReplayStatePartialReplayed)
        => /\ io'[1] = Ok("GetJobCron", 0, 0, "")
           /\ io'[2] = Ok("GetJobRuns", 1, Len(runs), "")
           /\ io'[Len(io')] = Ok("UpdateReplay", 0, 0, "")
           /\ IF MustDispatch
              THEN /\ Len(io') = 5
                   /\ IsDispatchOf(SubSeq(io', 3, 4),
                                   Merged[EarliestPending(Merged)].scheduledAt)
                   /\ runs' = MarkedInProgress(Merged, EarliestPending(Merged))
              ELSE /\ Len(io') = 3
                   /\ runs' = Merged
           /\ state' = IF CountIn(runs', StatePending) = 0 THEN ReplayStateReplayed
                       ELSE ReplayStatePartialReplayed]_vars

C5_Witness ==
    /\ last = "tick"
    /\ err = NoErr
    /\ from = ReplayStatePartialReplayed
    /\ Len(Mutations(io)) = 1
    /\ state = ReplayStatePartialReplayed
    /\ runs[1].state = StateFailed
    /\ runs[2].state = StateInProgress
    /\ runs[3].state = StatePending

\* C6: a tick without error on a replay in state replayed merges the observed
\* states and persists success if and only if no run is in progress and none
\* failed, failed with the message 'found N failed runs.' if and only if no
\* run is in progress and N >= 1 runs failed, and replayed otherwise; it calls
\* no Clear, ClearBatch or CreateRun
C6_ReplayedTick ==
    [][(last' = "tick" /\ err' = NoErr /\ state = ReplayStateReplayed)
        => /\ io' = <<Ok("GetJobCron", 0, 0, ""), Ok("GetJobRuns", 1, Len(runs), ""),
                      Ok("UpdateReplay", 0, 0, "")>>
           /\ runs' = Merged
           /\ state' = ReplayStateSuccess <=>
                (CountIn(Merged, StateInProgress) = 0 /\ CountIn(Merged, StateFailed) = 0)
           /\ state' = ReplayStateFailed <=>
                (CountIn(Merged, StateInProgress) = 0 /\ CountIn(Merged, StateFailed) > 0)
           /\ state' = ReplayStateFailed =>
                message' = "found " \o ToString(CountIn(Merged, StateFailed)) \o " failed runs."
           /\ state' \in {ReplayStateSuccess, ReplayStateFailed, ReplayStateReplayed}
           /\ state' # ReplayStateFailed => message' = ""]_vars

C6_Witness ==
    /\ last = "tick"
    /\ err = NoErr
    /\ from = ReplayStateReplayed
    /\ state = ReplayStateFailed
    /\ message = "found 2 failed runs."
    /\ CountIn(runs, StateSuccess) = 1

\* after tick k of the sequential scenario run k is in progress, the runs
\* before it succeeded, the runs after it are pending, and tick k replayed
\* run k and no other run
RunDispatchedAtTick ==
    /\ \A i \in DOMAIN runs :
          runs[i].state = IF i < ticks THEN StateSuccess
                          ELSE IF i = ticks THEN StateInProgress
                          ELSE StatePending
    /\ last = "tick" =>
          /\ Len(Mutations(io)) = 1
          /\ Mutations(io)[1].a = runs[ticks].scheduledAt - 1

\* C7 as stated: in the sequential scenario with N >= 2 runs, after each of
\* the ticks 1..N the persisted state is partial replayed and run k was
\* replayed at tick k, after tick N+1 the state is replayed and after tick
\* N+2 it is success
C7_SequentialTicksAsStated ==
    /\ ticks \in 1..Len(runs) => (state = ReplayStatePartialReplayed /\ RunDispatchedAtTick)
    /\ ticks = Len(runs) + 1 => state = ReplayStateReplayed
    /\ ticks = Len(runs) + 2 => state = ReplayStateSuccess

\* C7 amended: in the sequential scenario with N >= 2 runs, run k is replayed
\* at tick k; after each of the ticks 1..N-1 the persisted state is partial
\* replayed, after tick N it is replayed, and after tick N+1 it is success
\* and stays so
C7_SequentialTicks ==
    /\ ticks \in 1..Len(runs) => RunDispatchedAtTick
    /\ ticks = 0 => state = ReplayStateCreated
    /\ ticks \in 1..(Len(runs) - 1) => state = ReplayStatePartialReplayed
    /\ ticks = Len(runs) => state = ReplayStateReplayed
    /\ ticks >= Len(runs) + 1 =>
          /\ state = ReplayStateSuccess
          /\ \A i \in DOMAIN runs : runs[i].state = StateSuccess

C7_Witness ==
    /\ Len(runs) = 3
    /\ ticks = 4
    /\ last = "tick"
    /\ from = ReplayStateReplayed
    /\ state = ReplayStateSuccess

\* the workers that hold a replay request
Busy == {w \in DOMAIN inflight : inflight[w] # Idle}

\* C8: at most one worker at a time holds the replay, and the request it
\* holds is the persisted replay: the write of the tick before is in it
C8_TicksSerialised ==
    /\ Cardinality(Busy) <= 1
    /\ \A w \in Busy :
          /\ inflight[w].state = state
          /\ inflight[w].runs = runs

C8_Witness ==
    /\ Busy = {2}
    /\ last = "dispatch"
    /\ inflight[2].state = ReplayStatePartialReplayed
    /\ inflight[2].runs = runs
    /\ CountIn(runs, StateInProgress) = 1

\* the persisted replay is left as it is
SamePersisted == state' = state /\ runs' = runs /\ message' = message

C10_ClearNotFoundFallsBack ==
    \A i \in DOMAIN io :
        (last = "tick" /\ io[i].op = "Clear" /\ io[i].res = ErrClearNotFound)
            => /\ err = NoErr
               /\ \E j \in DOMAIN io :
                     j > i /\ io[j].op = "CreateRun" /\ io[j].a = io[i].a

\* C11 as stated: in every tick a call of UpdateReplay is the last call of
\* the tick, whether it succeeded or returned an error
C11_UpdateReplayIsLastCall ==
    \A i \in DOMAIN io :
        (last = "tick" /\ io[i].op = "UpdateReplay") => i = Len(io)

\* C11 amended: in every tick a call of UpdateReplay that succeeded is the
\* last call of the tick; after a call of UpdateReplay that returned an error
\* the tick makes exactly one more call, UpdateReplayStatus, and no scheduler
\* call
C11_UpdateReplayIsLastUnlessFailed ==
    \A i \in DOMAIN io :
        (last = "tick" /\ io[i].op = "UpdateReplay")
            => /\ io[i].res = NoErr => i = Len(io)
               /\ io[i].res # NoErr =>
                     (i = Len(io) - 1 /\ io[Len(io)].op = "UpdateReplayStatus")

C11_Witness ==
    /\ last = "tick"
    /\ Len(io) = 5
    /\ Len(Mutations(io)) = 1
    /\ io[4] = Call("UpdateReplay", 0, 0, "", ErrUpdateReplay)
    /\ io[5].op = "UpdateReplayStatus"

\* C12: a tick in which no call fails, on a replay in state created with an
\* empty run vector, persists success without changing the scheduler and
\* without an error, in parallel and in sequential mode
C12_EmptyReplaySucceedsAtOnce ==
    [][(last' = "tick" /\ state = ReplayStateCreated /\ Len(runs) = 0
            /\ ~SomeCallFailed(io'))
        => (state' = ReplayStateSuccess /\ err' = NoErr /\ Mutations(io') = <<>>)]_vars

\* Process on the persisted replay in the other mode, with no call failing
OtherModeOutcome ==
    Process([ReplayWithRun EXCEPT !.parallel = ~parallel], sched, NoFault)

\* the persisted replay and the scheduler table that the outcome o of a tick
\* leaves
PersistedAfter(o) ==
    <<IF o.write = "none" THEN state ELSE o.state,
      IF o.write = "UpdateReplay" THEN o.runs ELSE runs,
      IF o.write = "none" THEN message ELSE o.message,
      o.sched>>

\* C13: for a replay of exactly one run, every tick without error persists
\* the state, run vector and message, and leaves the run on the scheduler in
\* the state, that the tick of the other mode does from the same persisted
\* replay and the same scheduler table; so from created both modes go through
\* the same persisted replays under the same reports of the scheduler
C13_SingleRunModesAgree ==
    [][(last' = "tick" /\ Len(runs) = 1 /\ err' = NoErr)
        => /\ OtherModeOutcome.err = NoErr
           /\ <<state', runs', message', sched'>> = PersistedAfter(OtherModeOutcome)]_vars

C13_Witness ==
    /\ last = "tick"
    /\ err = NoErr
    /\ from = ReplayStateCreated
    /\ parallel
    /\ Len(runs) = 1
    /\ runs[1].state = StateInProgress
    /\ state = ReplayStateReplayed

\* C14: a tick on a replay whose processing has taken longer than
\* ReplayTimeout persists failed, so that no replay stays partial replayed or
\* replayed beyond the timeout
C14_ProcessingBoundedByTimeout ==
    (last = "tick" /\ from \in NonTerminalStates /\ elapsed > ReplayTimeout)
        => state = ReplayStateFailed

\* the tick ended with an UpdateReplay that succeeded
Persisted(calls) == calls # <<>> /\ calls[Len(calls)] = Ok("UpdateReplay", 0, 0, "")

\* C15: the run vector that a tick persists through UpdateReplay has the
\* scheduledAt of the vector loaded at the start of the tick, entry by entry,
\* with no run added, dropped or duplicated: exactly one run for each schedule
\* point of the replay's range
C15_RunVectorCoverage ==
    [][(last' = "tick" /\ Persisted(io'))
        => /\ Len(runs') = Len(runs)
           /\ \A i \in DOMAIN runs : runs'[i].scheduledAt = runs[i].scheduledAt
           /\ \A t \in ReplayWithRun.startTime..ReplayWithRun.endTime :
                 Cardinality({i \in DOMAIN runs' : runs'[i].scheduledAt = t}) = 1]_vars

C15_Witness ==
    /\ last = "tick"
    /\ Persisted(io)
    /\ from = ReplayStatePartialReplayed
    /\ Len(runs) = 3
    /\ runs[1].state = StateSuccess
    /\ runs[2].state = StateFailed
    /\ runs[3].state = StateInProgress

\* Compile returned without error
Compiled == cout.done /\ cout.err = NoErr

\* the keys the template compiler returned for a partition
KeysOf(call) ==
    IF cin.out[call] \in {TemplateFails, TemplateEmpty} THEN {} ELSE {cin.out[call]}

\* C16 as stated: the configs of every successful Compile, for a task and for
\* a hook, have the keys DSTART, DEND, EXECUTION_TIME, JOB_DESTINATION and
\* JOB_LABELS
C16_ConfigsHaveFiveKeys ==
    Compiled => (SystemKeys \cup {JobAttributionLabelsKey}) \subseteq DOMAIN cout.configs

\* C16 amended: the configs of a successful Compile for a task have the keys
\* DSTART, DEND, EXECUTION_TIME, JOB_DESTINATION and JOB_LABELS; the configs
\* of a successful Compile for a hook have DSTART, DEND, EXECUTION_TIME,
\* JOB_DESTINATION and the keys of the hook's compiled plain config, and
\* JOB_LABELS is not added to them
C16_ConfigsKeysByExecutor ==
    Compiled =>
        /\ cin.type = ExecutorTask =>
              DOMAIN cout.configs
                  = SystemKeys \cup {JobAttributionLabelsKey} \cup KeysOf(TaskConf)
        /\ cin.type = ExecutorHook =>
              DOMAIN cout.configs = SystemKeys \cup KeysOf(HookConf)

C16_Witness ==
    /\ Compiled
    /\ cin.type = ExecutorHook
    /\ DOMAIN cout.configs = SystemKeys \cup {"some.config.compiled"}
    /\ DOMAIN cout.secrets = {"secret.config.compiled"}

\* C17: the configs and the secrets of every successful Compile have no key
\* in common, whatever keys the template compiler returns
C17_ConfigsSecretsDisjoint ==
    Compiled => DOMAIN cout.configs \cap DOMAIN cout.secrets = {}

\* C18: when GetDetails fails, or the window interval cannot be derived,
\* Compile returns that error and a nil ExecutorInput and has made no later
\* call: no asset compilation and no template compilation
C18_FailsFast ==
    /\ (cout.done /\ cin.detailsErr) =>
          /\ cout.err = ErrGetDetails
          /\ cout.nil
          /\ cout.calls = <<"GetDetails">>
    /\ (cout.done /\ ~cin.detailsErr /\ cin.intervalErr) =>
          /\ cout.err = ErrGetInterval
          /\ cout.nil
          /\ cout.calls = <<"GetDetails", "GetInterval">>

C18_Witness ==
    /\ cout.done
    /\ ~cin.detailsErr
    /\ cin.intervalErr
    /\ cin.assetErr
    /\ cout.err = ErrGetInterval
    /\ Len(cout.calls) = 2

\* the calls of a Compile up to the asset compilation
UpToAssets == <<"GetDetails", "GetInterval", "CompileJobRunAssets">>

\* Compile got as far as the asset compilation, which succeeded
AssetsCompiled == cout.done /\ ~cin.detailsErr /\ ~cin.intervalErr /\ ~cin.assetErr

\* Compile got as far as the config of the hook
HookReached ==
    /\ AssetsCompiled
    /\ cin.out[TaskConf] # TemplateFails
    /\ cin.out[TaskSecret] # TemplateFails
    /\ cin.type = ExecutorHook
    /\ \E i \in DOMAIN cin.hooks : cin.hooks[i] = cin.name

\* Compile returned the error e with a nil ExecutorInput after the calls cs
FailedWith(e, cs) ==
    /\ cout.err = e
    /\ cout.nil
    /\ cout.configs = EmptyMap /\ cout.secrets = EmptyMap /\ cout.files = EmptyMap
    /\ cout.calls = cs

\* C19: when the asset compilation, the compilation of the plain partition or
\* that of the secret partition fails, for the config of the task or of the
\* hook, Compile returns that error and a nil ExecutorInput, and the failing
\* call is its last call
C19_CompilationFailureSurfaces ==
    /\ (cout.done /\ ~cin.detailsErr /\ ~cin.intervalErr /\ cin.assetErr)
          => FailedWith(ErrCompileJobRunAssets, UpToAssets)
    /\ (AssetsCompiled /\ cin.out[TaskConf] = TemplateFails)
          => FailedWith(ErrTemplate(TaskConf), UpToAssets \o <<TaskConf>>)
    /\ (AssetsCompiled /\ cin.out[TaskConf] # TemplateFails
            /\ cin.out[TaskSecret] = TemplateFails)
          => FailedWith(ErrTemplate(TaskSecret), UpToAssets \o <<TaskConf, TaskSecret>>)
    /\ (HookReached /\ cin.out[HookConf] = TemplateFails)
          => FailedWith(ErrTemplate(HookConf),
                        UpToAssets \o <<TaskConf, TaskSecret, HookConf>>)
    /\ (HookReached /\ cin.out[HookConf] # TemplateFails
            /\ cin.out[HookSecret] = TemplateFails)
          => FailedWith(ErrTemplate(HookSecret),
                        UpToAssets \o <<TaskConf, TaskSecret, HookConf, HookSecret>>)
    /\ cout.done => (cout.nil <=> cout.err # NoErr)

C19_Witness ==
    /\ cout.done
    /\ cin.type = ExecutorHook
    /\ cin.out[HookConf] = TemplateFails
    /\ cin.out[HookSecret] = TemplateFails
    /\ cout.err = ErrTemplate(HookConf)
    /\ cout.nil
    /\ Len(cout.calls) = 6

\* the executor is a hook and no hook of the job has its name
HookMissing ==
    /\ cout.done
    /\ cin.type = ExecutorHook
    /\ \A i \in DOMAIN cin.hooks : cin.hooks[i] # cin.name

\* C20 as stated: when the executor is a hook and no hook of the job has its
\* name, Compile returns a nil ExecutorInput and an error whose message has
\* 'hook:' and the executor's name in it
C20_MissingHookFails ==
    HookMissing => (cout.nil /\ cout.err = HookNotFoundPrefix \o "hook:" \o cin.name)

\* C20 amended: when the executor is a hook, no hook of the job has its name,
\* and the tenant details, the window interval, the assets and the config of
\* the task were got without error, Compile returns a nil ExecutorInput and
\* an error whose message has 'hook:' and the executor's name in it; an
\* earlier failure is returned instead
C20_MissingHookFailsAfterTask ==
    /\ (HookMissing /\ AssetsCompiled /\ cin.out[TaskConf] # TemplateFails
            /\ cin.out[TaskSecret] # TemplateFails)
          => FailedWith(HookNotFoundPrefix \o "hook:" \o cin.name,
                        UpToAssets \o <<TaskConf, TaskSecret>>)
    /\ HookMissing => cout.nil

C20_Witness ==
    /\ HookMissing
    /\ cin.hooks = <<"transformer">>
    /\ cout.nil
    /\ cout.err = "not found for entity jobRun: hook:predator"

\* the compiled entries the template compiler returned for a partition
EntriesOf(call) == [k \in KeysOf(call) |-> call \o " value"]

\* the map m has the entries of e, but for the keys of the system variables
HoldsEntries(m, e) ==
    \A k \in DOMAIN e \ SystemKeys : k \in DOMAIN m /\ m[k] = e[k]

\* the entries of the map m that are compiled entries of the partitions cs
EntriesFrom(m, cs) == {k \in DOMAIN m : \E c \in cs : m[k] = c \o " value"}

C22_LabelMatches ==
    cout.done =>
        /\ Len(cout.label) \in 1..MaxLabelLength
        /\ \A i \in DOMAIN cout.label : cout.label[i] \in LabelChars

\* C22 amended: the job_name label of every job name has 1 to 63 characters.
\* For a name of at most 63 characters it is the name in lowercase with a
\* dash for every character outside [a-z0-9-]; for a longer name it is '__'
\* and then the last 61 characters of the name, in lowercase with a dash for
\* every character outside [a-z0-9-]
C22_LabelMatchesButMark ==
    cout.done =>
        /\ Len(cout.label) \in 1..MaxLabelLength
        /\ Len(cin.jobName) <= MaxLabelLength =>
              /\ Len(cout.label) = Len(cin.jobName)
              /\ \A i \in DOMAIN cout.label :
                    /\ cout.label[i] \in LabelChars
                    /\ cin.jobName[i] \in LabelChars => cout.label[i] = cin.jobName[i]
                    /\ cin.jobName[i] \in {"_", "~"} => cout.label[i] = "-"
                    /\ cin.jobName[i] = "A" => cout.label[i] = "a"
        /\ Len(cin.jobName) > MaxLabelLength =>
              /\ Len(cout.label) = MaxLabelLength
              /\ cout.label[1] = "_" /\ cout.label[2] = "_"
              /\ \A i \in 3..MaxLabelLength :
                    /\ cout.label[i] \in LabelChars
                    /\ cin.jobName[Len(cin.jobName) - MaxLabelLength + i] \in LabelChars
                          => cout.label[i] = cin.jobName[Len(cin.jobName) - MaxLabelLength + i]

C22_Witness ==
    /\ cout.done
    /\ Len(cin.jobName) = MaxLabelLength + 2
    /\ cin.jobName[1] = "a"
    /\ cin.jobName[Len(cin.jobName)] = "~"
    /\ cin.jobName[Len(cin.jobName) - 1] = "A"
    /\ cout.label[1] = "_"
    /\ cout.label[MaxLabelLength] = "-"
    /\ cout.label[MaxLabelLength - 1] = "a"

\* C23 as stated: after a Compile, EXECUTION_TIME of configs parsed as
\* RFC3339 is the instant executedAt, for every executedAt
C23_ExecutionTimeRoundTrip ==
    cout.done => TimeEqual(Parse(cout.executionTime), cin.executedAt)

\* C23 amended: after a Compile, EXECUTION_TIME of configs parsed as RFC3339
\* is executedAt cut to the whole second: the instant executedAt when its
\* sub-second part is zero, and the start of its second otherwise
C23_ExecutionTimeRoundTripToSecond ==
    cout.done =>
        /\ Parse(cout.executionTime).unix = cin.executedAt.unix
        /\ Parse(cout.executionTime).nsec = 0
        /\ cin.executedAt.nsec = 0 => TimeEqual(Parse(cout.executionTime), cin.executedAt)
        /\ cin.executedAt.nsec # 0 => ~TimeEqual(Parse(cout.executionTime), cin.executedAt)

C23_Witness ==
    /\ cout.done
    /\ cin.executedAt.nsec = 500000000
    /\ cin.executedAt.offset = 5 * Hour + 30 * Minute
    /\ cin.executedAt.unix = Day - 1
    /\ cout.executionTime.day = 1
    /\ cout.executionTime.hour = 5
    /\ cout.executionTime.minute = 29
    /\ cout.executionTime.second = 59
    /\ Parse(cout.executionTime).unix = Day - 1

\* the map m has the assets of the list, and no other
IsMapOf(m, assets) ==
    /\ \A n \in DOMAIN m : \E i \in DOMAIN assets : assets[i] = Asset(n, m[n])
    /\ \A i \in DOMAIN assets : assets[i].name \in DOMAIN m

\* CompileJobRunAssets returned the error e and a nil file map after the
\* calls cs
AssetsFailedWith(e, cs) ==
    cout.err = e /\ cout.nil /\ cout.files = EmptyMap /\ cout.calls = cs

\* the last call of CompileJobRunAssets is the files compiler's, and what
\* CompileJobRunAssets returned is what the files compiler returned
ReturnsCompileOf(n) ==
    /\ Len(cout.calls) = n
    /\ cout.calls[n].op = "Compile"
    /\ cin.compileErr => cout.err = ErrFilesCompile /\ cout.nil /\ cout.files = EmptyMap
    /\ ~cin.compileErr =>
          /\ cout.err = NoErr /\ ~cout.nil
          /\ cout.files = [k \in DOMAIN cout.calls[n].arg |-> cout.calls[n].arg[k] \o " compiled"]

\* C24: CompileJobRunAssets gives the files compiler the assets that
\* DependencyMod.CompileAssets returned when the plugin of the task has a
\* dependency mod, and the assets of the job when it has none, and returns
\* what the files compiler returns; an error of GetByName, of CompileAssets
\* or of the files compiler is returned as it is with a nil file map, and
\* no later call is made
C24_CompileJobRunAssets ==
    cout.done =>
        /\ cin.pluginErr => AssetsFailedWith(ErrGetByName, <<GetByName>>)
        /\ (~cin.pluginErr /\ cin.dependencyMod /\ cin.modErr) =>
              AssetsFailedWith(ErrCompileAssets,
                               <<GetByName, AssetCall("CompileAssets", cin.assets)>>)
        /\ (~cin.pluginErr /\ cin.dependencyMod /\ ~cin.modErr) =>
              /\ ReturnsCompileOf(3)
              /\ cout.calls[1] = GetByName
              /\ cout.calls[2] = AssetCall("CompileAssets", cin.assets)
              /\ IsMapOf(cout.calls[3].arg, cin.modAssets)
        /\ (~cin.pluginErr /\ ~cin.dependencyMod) =>
              /\ ReturnsCompileOf(2)
              /\ cout.calls[1] = GetByName
              /\ cout.calls[2].arg = cin.assets

C24_Witness ==
    /\ cout.done
    /\ cin.dependencyMod
    /\ DOMAIN cin.assets = {"query.sql"}
    /\ cin.modAssets = <<Asset("view.sql", "select 1")>>
    /\ cout.err = NoErr
    /\ cout.files = [k \in {"view.sql"} |-> "select 1 compiled"]

\* the plugin configs of the key k that compileConfig returned
ConfigsOf(k) == {i \in DOMAIN cout.pluginConfigs : cout.pluginConfigs[i].name = k}

\* C25: compileConfig never fails and returns one plugin config for each
\* key of the config: with the compiled value when the template of the key
\* compiles, and with the template itself when it does not, whatever
\* happens to the other keys
C25_CompileConfigBestEffort ==
    cout.done =>
        /\ Len(cout.pluginConfigs) = Cardinality(DOMAIN cin.configs)
        /\ \A k \in DOMAIN cin.configs :
              /\ Cardinality(ConfigsOf(k)) = 1
              /\ \A i \in ConfigsOf(k) :
                    cout.pluginConfigs[i].value =
                        IF cin.fails[cin.configs[k]] THEN cin.configs[k]
                        ELSE cin.configs[k] \o " compiled"

C25_Witness ==
    /\ cout.done
    /\ DOMAIN cin.configs = ConfigKeys
    /\ cin.fails["{{.secret.KEY}}"] /\ ~cin.fails["{{.proj.NAME}}"]
    /\ cin.configs["DATASET"] = "{{.secret.KEY}}"
    /\ cin.configs["TABLE"] = "{{.proj.NAME}}"
    /\ cout.pluginConfigs[1] = PluginConfig("DATASET", "{{.secret.KEY}}")
    /\ cout.pluginConfigs[2] = PluginConfig("TABLE", "{{.proj.NAME}} compiled")

\* C26: every change of the persisted state of the replay follows the
\* lifecycle: created to replayed or partial replayed, partial replayed to
\* replayed, replayed to success or failed, and any state to failed in a
\* tick that had an error.  So created is never persisted, replayed never
\* goes back to partial replayed, and created and partial replayed never go
\* to success
C26_Lifecycle ==
    [][state' # state =>
          \/ state = ReplayStateCreated
                /\ state' \in {ReplayStateReplayed, ReplayStatePartialReplayed}
          \/ state = ReplayStatePartialReplayed /\ state' = ReplayStateReplayed
          \/ state = ReplayStateReplayed
                /\ state' \in {ReplayStateSuccess, ReplayStateFailed}
          \/ state' = ReplayStateFailed /\ err' # NoErr]_vars

C26_Witness ==
    /\ last = "tick"
    /\ from = ReplayStatePartialReplayed
    /\ state = ReplayStateReplayed
    /\ err = NoErr
    /\ CountIn(runs, StateInProgress) = 1
    /\ CountIn(runs, StatePending) = 0

\* the CreateRun calls among calls
CreateCalls(calls) == SelectSeq(calls, LAMBDA c : c.op = "CreateRun")

\* the errors of calls, each after a space, in the order of the calls
RECURSIVE JoinedErrors(_)
JoinedErrors(calls) ==
    IF calls = <<>> THEN ""
    ELSE (IF Head(calls).res = NoErr THEN "" ELSE " " \o Head(calls).res)
            \o JoinedErrors(Tail(calls))

\* the number of calls of cs for the logical time lt
CallsFor(cs, lt) == Cardinality({i \in DOMAIN cs : cs[i].a = lt})

\* the tick that made the calls cs ran createMissingRuns past its fetch of
\* the runs of [startTime, endTime]
CreatedMissingRuns(cs) ==
    /\ Len(cs) >= 3
    /\ cs[2].op = "ClearBatch" /\ cs[2].res = NoErr
    /\ cs[3] = Ok("GetJobRuns", 1, Len(runs), "")

\* C27: createMissingRuns calls CreateRun with the prefix 'replayed' once for
\* each expected run that the runs fetched for [startTime, endTime] do not
\* have, and for no other run; a CreateRun that fails does not stop the
\* others, and when one fails createMissingRuns returns an error with all the
\* failures in it
C27_CreateMissingRuns ==
    [][(last' = "tick" /\ state = ReplayStateCreated /\ parallel /\ CreatedMissingRuns(io'))
        => /\ \A i \in DOMAIN runs :
                 CallsFor(CreateCalls(io'), runs[i].scheduledAt - 1)
                    = IF sched[runs[i].scheduledAt] = NoRun THEN 1 ELSE 0
           /\ Len(CreateCalls(io')) = Cardinality({t \in DOMAIN sched : sched[t] = NoRun})
           /\ \A i \in DOMAIN CreateCalls(io') :
                 CreateCalls(io')[i].prefix = prefixReplayed
           /\ JoinedErrors(CreateCalls(io')) # ""
                 => err' = "create runs:" \o JoinedErrors(CreateCalls(io'))
           /\ JoinedErrors(CreateCalls(io')) = ""
                 => err' \in {NoErr, ErrUpdateReplay}]_vars

C27_Witness ==
    /\ last = "tick"
    /\ from = ReplayStateCreated
    /\ parallel
    /\ Len(runs) = 3
    /\ Len(CreateCalls(io)) = 2
    /\ CreateCalls(io)[1].res # NoErr
    /\ CreateCalls(io)[1].a = 0
    /\ CreateCalls(io)[2].res # NoErr
    /\ CreateCalls(io)[2].a = 2
    /\ err = "create runs: unable to create run at 0 unable to create run at 2"

\* the place of the fetchRun of replayRunOnScheduler among the calls of a
\* tick on the persisted replay: after GetJobCron, and after the fetchRuns
\* of a replay in state partial replayed
FetchRunAt == IF state = ReplayStateCreated THEN 2 ELSE 3

\* the tick that made the calls cs on the persisted replay ran
\* replayRunOnScheduler
ReplayedRunOnScheduler(cs) ==
    /\ \/ state = ReplayStateCreated /\ ~parallel
       \/ state = ReplayStatePartialReplayed
    /\ Len(cs) >= FetchRunAt
    /\ cs[FetchRunAt].op = "GetJobRuns"

\* the one call after the fetchRun is CreateRun with the prefix 'replayed'
\* when the scheduler has no run at the time fetched, and Clear when it has
\* one, for the logical time of the time fetched; no other call of the tick
\* is a Clear or a CreateRun
OneMutationAfterFetch(cs) ==
    /\ Len(Mutations(cs)) = 1
    /\ Len(cs) > FetchRunAt
    /\ cs[FetchRunAt + 1] = Mutations(cs)[1]
    /\ cs[FetchRunAt + 1].a = cs[FetchRunAt].a - 1
    /\ sched[cs[FetchRunAt].a] = NoRun =>
          /\ cs[FetchRunAt + 1].op = "CreateRun"
          /\ cs[FetchRunAt + 1].prefix = prefixReplayed
    /\ sched[cs[FetchRunAt].a] # NoRun => cs[FetchRunAt + 1].op = "Clear"

\* C28 as stated: replayRunOnScheduler calls GetJobRuns with startDate and
\* endDate the scheduledAt of the run and then makes one call that changes
\* the scheduler: CreateRun with the prefix 'replayed' and no Clear when
\* GetJobRuns returned no run, Clear and no CreateRun on any other response
C28_OneMutationPerRun ==
    [][(last' = "tick" /\ ReplayedRunOnScheduler(io'))
        => /\ io'[FetchRunAt].a = io'[FetchRunAt].b
           /\ \E i \in DOMAIN runs : runs[i].scheduledAt = io'[FetchRunAt].a
           /\ OneMutationAfterFetch(io')]_vars

\* C28 amended: replayRunOnScheduler calls GetJobRuns with startDate and
\* endDate the scheduledAt of the run.  When GetJobRuns returns an error it
\* makes no call that changes the scheduler and returns the error; otherwise
\* it makes one such call: CreateRun with the prefix 'replayed' and no Clear
\* when GetJobRuns returned no run, Clear and no CreateRun when it returned
\* a run
C28_OneMutationPerRunFetched ==
    [][(last' = "tick" /\ ReplayedRunOnScheduler(io'))
        => /\ io'[FetchRunAt].a = io'[FetchRunAt].b
           /\ \E i \in DOMAIN runs : runs[i].scheduledAt = io'[FetchRunAt].a
           /\ io'[FetchRunAt].res = NoErr => OneMutationAfterFetch(io')
           /\ io'[FetchRunAt].res # NoErr =>
                 /\ Mutations(io') = <<>>
                 /\ err' = io'[FetchRunAt].res]_vars

C28_Witness ==
    /\ last = "tick"
    /\ from = ReplayStatePartialReplayed
    /\ Len(io) = 5
    /\ io[3] = Ok("GetJobRuns", 2, 2, "")
    /\ io[4] = Ok("CreateRun", 1, 0, prefixReplayed)
    /\ Len(Mutations(io)) = 1
    /\ err = NoErr

\* C29: the merge of the observed statuses changes only runs that are in
\* progress in the persisted vector, and only to the success or failed that
\* the scheduler reports for them: a run observed as pending, in progress or
\* missing, or not observed, is not changed, and a persisted run that is
\* pending, success or failed is not changed whatever is observed
C29_MergeFrame ==
    cout.done =>
        /\ Len(cout.updatedRuns) = Len(cin.existing)
        /\ \A i \in DOMAIN cin.existing :
              /\ cout.updatedRuns[i].scheduledAt = i
              /\ (cin.existing[i] = StateInProgress
                     /\ cin.observed[i] \in {StateSuccess, StateFailed})
                    => cout.updatedRuns[i].state = cin.observed[i]
              /\ cin.existing[i] # StateInProgress
                    => cout.updatedRuns[i].state = cin.existing[i]
              /\ cin.observed[i] \in {StatePending, StateInProgress, StateMissing, NoRun}
                    => cout.updatedRuns[i].state = cin.existing[i]

C29_Witness ==
    /\ cout.done
    /\ cin.existing = <<StateInProgress, StatePending, StateInProgress>>
    /\ cin.observed = <<StateFailed, StateSuccess, StateMissing>>
    /\ cout.updatedRuns = <<JobRunStatus(1, StateFailed), JobRunStatus(2, StatePending),
                            JobRunStatus(3, StateInProgress)>>

\* every Clear or CreateRun among the calls cs is for a run before which, in
\* the vector rs, every run is success or failed, and rs has no run in
\* progress
DispatchedInOrder(cs, rs) ==
    \A k \in DOMAIN Mutations(cs) :
        /\ \A i \in DOMAIN rs :
              rs[i].scheduledAt < Mutations(cs)[k].a + 1
                 => rs[i].state \in {StateSuccess, StateFailed}
        /\ CountIn(rs, StateInProgress) = 0

\* a tick of the sequential replay that made a Clear or a CreateRun
SequentialDispatch ==
    last' = "tick" /\ ~parallel /\ Mutations(io') # <<>>

\* C30 as stated: in sequential mode a Clear or CreateRun is issued for a run
\* only when every run with an earlier scheduledAt is already success or
\* failed in the persisted vector, and no run is dispatched while a run of
\* the persisted vector is in progress
C30_SequentialOrder ==
    [][SequentialDispatch => DispatchedInOrder(io', runs)]_vars

\* C30 amended: in sequential mode runs are dispatched in ascending order of
\* scheduledAt, one in a tick: a Clear or CreateRun is issued for a run only
\* when, in the persisted vector merged with the statuses observed in that
\* tick, that run is pending, every run with an earlier scheduledAt is
\* success or failed and no run is in progress
C30_SequentialOrderMerged ==
    [][SequentialDispatch =>
          /\ DispatchedInOrder(io', Merged)
          /\ Len(Mutations(io')) = 1
          /\ \E i \in DOMAIN Merged :
                /\ Merged[i].scheduledAt = Mutations(io')[1].a + 1
                /\ Merged[i].state = StatePending]_vars

C30_Witness ==
    /\ last = "tick"
    /\ ~parallel
    /\ from = ReplayStatePartialReplayed
    /\ Len(runs) = 3
    /\ runs[1].state = StateFailed
    /\ runs[2].state = StateSuccess
    /\ runs[3].state = StateInProgress
    /\ Len(Mutations(io)) = 1
    /\ Mutations(io)[1].a = 2
    /\ err = NoErr

\* C31: the persisted run vector of a sequential replay never holds more than
\* one run in progress
C31_AtMostOneInProgress ==
    ~parallel => CountIn(runs, StateInProgress) <= 1

\* a tick on a sequential replay in state partial replayed found the run
\* dispatched before finished and left the next run, and only it, in progress
C31_Witness ==
    /\ ~parallel
    /\ last = "tick"
    /\ from = ReplayStatePartialReplayed
    /\ err = NoErr
    /\ Len(Mutations(io)) = 1
    /\ CountIn(runs, StateInProgress) = 1
    /\ CountIn(runs, StateSuccess) + CountIn(runs, StateFailed) >= 1

\* the scheduler's run table sch after the calls: every Clear, ClearBatch and
\* CreateRun that returned no error has had its effect, a Clear that found its
\* run gone has none, and no other call touches the table
RECURSIVE Applied(_, _)
Applied(sch, calls) ==
    IF calls = <<>> THEN sch
    ELSE Applied(
            CASE Head(calls).op = "ClearBatch" /\ Head(calls).res = NoErr
                    -> SchedClearBatch(sch, Head(calls).a, Head(calls).b)
              [] Head(calls).op = "Clear" /\ Head(calls).res = NoErr
                    -> SchedClear(sch, Head(calls).a)
              [] Head(calls).op = "Clear" /\ Head(calls).res = ErrClearNotFound
                    -> SchedRunGone(sch, Head(calls).a)
              [] Head(calls).op = "CreateRun" /\ Head(calls).res = NoErr
                    -> SchedCreateRun(sch, Head(calls).a)
              [] OTHER -> sch,
            Tail(calls))

\* C32: a tick in which a call fails ends with UpdateReplayStatus and with no
\* UpdateReplay that got through: the persisted run vector is as it was before
\* the tick and the persisted state is failed or as it was, while the
\* scheduler keeps the effect of every ClearBatch, Clear and CreateRun of the
\* tick that succeeded
C32_FailedTickFrame ==
    [][(last' = "tick" /\ SomeCallFailed(io'))
        => /\ runs' = runs
           /\ state' \in {ReplayStateFailed, state}
           /\ io'[Len(io')].op = "UpdateReplayStatus"
           /\ \A i \in DOMAIN io' : io'[i].op = "UpdateReplay" => io'[i].res # NoErr
           /\ sched' = Applied(sched, io')]_vars

\* the parallel start of a replay whose ClearBatch succeeded, with one
\* CreateRun that succeeded and one that failed: the record is failed, its
\* runs are all still pending, and the created run is running
C32_Witness ==
    /\ last = "tick"
    /\ from = ReplayStateCreated
    /\ parallel
    /\ \E i \in DOMAIN io : io[i].op = "ClearBatch" /\ io[i].res = NoErr
    /\ \E i \in DOMAIN io : io[i].op = "CreateRun" /\ io[i].res # NoErr
    /\ \E i \in DOMAIN io :
          /\ io[i].op = "CreateRun" /\ io[i].res = NoErr
          /\ sched[ScheduledAtOf(io[i].a)] = StateInProgress
    /\ state = ReplayStateFailed
    /\ message = err
    /\ Len(runs) >= 2
    /\ \A i \in DOMAIN runs : runs[i].state = StatePending

\* C33: whenever the persisted state is success every run of the persisted
\* vector is in state success, and whenever the persisted state is replayed
\* no run of the persisted vector is pending
C33_StateAgreesWithRuns ==
    /\ state = ReplayStateSuccess
          => \A i \in DOMAIN runs : runs[i].state = StateSuccess
    /\ state = ReplayStateReplayed
          => \A i \in DOMAIN runs : runs[i].state # StatePending

\* a tick on a replay in state replayed with several runs found the last of
\* them finished and persisted success
C33_Witness ==
    /\ last = "tick"
    /\ from = ReplayStateReplayed
    /\ state = ReplayStateSuccess
    /\ Len(runs) >= 2
    /\ \E i \in DOMAIN io : io[i] = Ok("UpdateReplay", 0, 0, "")
    /\ \A i \in DOMAIN runs : runs[i].state = StateSuccess

\* C34: under fair ticks, with no failing call and a scheduler that finishes
\* every run, a replay with a run vector that is not empty eventually reaches
\* success or failed
C34_EventuallyTerminal ==
    (Len(runs) > 0) ~> (state \in {ReplayStateSuccess, ReplayStateFailed})

\* a sequential replay of several runs ended failed because the scheduler
\* finished one of its runs with failed, after every run had been dispatched
C34_Witness ==
    /\ last = "tick"
    /\ ~parallel
    /\ Len(runs) >= 2
    /\ from = ReplayStateReplayed
    /\ state = ReplayStateFailed
    /\ CountIn(runs, StateFailed) >= 1
    /\ CountIn(runs, StateSuccess) >= 1
    /\ CountIn(runs, StateSuccess) + CountIn(runs, StateFailed) = Len(runs)

\* the scheduler reports the run in progress of the persisted vector failed
\* while a run is still pending
FailedWhilePending ==
    /\ \E i \in DOMAIN runs :
          runs[i].state = StateInProgress /\ sched[runs[i].scheduledAt] = StateFailed
    /\ CountIn(runs, StatePending) > 0

\* C35: a tick without error on a sequential replay that finds its run in
\* progress failed while a run is pending dispatches the earliest pending run
\* and does not persist failed; and a tick without error persists failed only
\* from state replayed, with a run failed and every run success or failed
C35_FailedRunDoesNotStop ==
    [][(last' = "tick" /\ err' = NoErr /\ ~parallel)
        => /\ (state = ReplayStatePartialReplayed /\ FailedWhilePending)
                 => /\ Len(io') = 5
                    /\ IsDispatchOf(SubSeq(io', 3, 4),
                                    Merged[EarliestPending(Merged)].scheduledAt)
                    /\ runs' = MarkedInProgress(Merged, EarliestPending(Merged))
                    /\ state' \in {ReplayStatePartialReplayed, ReplayStateReplayed}
           /\ (state' = ReplayStateFailed /\ state # ReplayStateFailed)
                 => /\ state = ReplayStateReplayed
                    /\ CountIn(runs', StateFailed) >= 1
                    /\ message' = FailedRunsMessage(CountIn(runs', StateFailed))
                    /\ CountIn(runs', StatePending) = 0
                    /\ CountIn(runs', StateInProgress) = 0]_vars

\* the first run of a sequential replay of two runs failed, and the tick that
\* found it failed has dispatched the second run
C35_Witness ==
    /\ last = "tick"
    /\ err = NoErr
    /\ ~parallel
    /\ from = ReplayStatePartialReplayed
    /\ Len(runs) = 2
    /\ runs[1].state = StateFailed
    /\ runs[2].state = StateInProgress
    /\ Len(Mutations(io)) = 1
    /\ state = ReplayStateReplayed

====
